---- MODULE Spec2Model ----
(***************************************************************************)
(* Manufacturing financial simulation engine                               *)
(* (backend/services/enhanced_simulation_engine.py).                       *)
(*                                                                         *)
(* Money is a Python float in the source.  Here every amount is an exact   *)
(* rational kept as an integer number of 1/Unit dollars; improvement rates *)
(* are integers in 1/RateScale, automation levels in 1/LevelScale and ramp *)
(* factors in 1/RampScale.  The inputs are drawn from amounts for which    *)
(* every product and quotient of the source is a whole number of these     *)
(* units, so the arithmetic below is the real-number arithmetic of the     *)
(* source without rounding.                                                *)
(***************************************************************************)
EXTENDS Integers, Sequences, FiniteSets, TLC

VARIABLES
    pc,                 \* position of the request: "start", "baseline", "projected", "analyzed"
    baseline,           \* EnhancedBaselineModel of the request (NoBaseline before construction)
    automation_levels,  \* automation_levels argument of generate_monthly_projections
    months,             \* months argument of generate_monthly_projections
    opts,               \* labor_opt, quality_opt, inventory_opt, service_opt of the call
    projections,        \* list returned by generate_monthly_projections
    break_even,         \* dictionary returned by analyze_break_even (NoAnalysis before the call)
    engine,             \* the shared EnhancedSimulationEngine: its four factor tables
    creation,           \* arguments and outcome of the last create_enhanced_baseline call
    calls,              \* calculator calls in progress on the shared engine, one per thread
    session,            \* the questionnaire_sessions row of the session (NoSession before start)
    responses,          \* the questionnaire_responses rows of the session, in insertion order
    analysis,           \* whether a questionnaire_analysis row exists for the session
    reply,              \* HTTP status and payload of the last questionnaire request
    now,                \* the clock read by datetime.utcnow()
    environ,            \* os.environ.get('RATE_LIMIT_ENABLED') of the server process
    access_log,         \* the requests made to the rate-limited route, in order, with their status
    adjusted,           \* arguments and outcome of the last adjust_enhanced_simulation request
    legacy,             \* the SimulationEngine request: company_profile, baseline, scenarios
    submits             \* submit_answer requests in progress, one per thread

simVars == <<pc, baseline, automation_levels, months, opts, projections, break_even>>
questVars == <<session, responses, analysis, reply, now>>
limitVars == <<environ, access_log>>
auxVars == <<limitVars, adjusted, legacy, submits>>
vars == <<simVars, engine, creation, calls, questVars, auxVars>>

----------------------------------------------------------------------------
(* Number representation *)

Unit == 72          \* one dollar
RateScale == 1000   \* rate 1.0
LevelScale == 2     \* automation level 1.0
RampScale == 60     \* ramp factor 1.0
None == 0           \* Python None for a month number (months start at 1)

MaxMonths == 13     \* largest projection horizon explored

\* x * n / d, exact whenever the quotient is whole; no intermediate x * n
Mul(x, n, d) == (x \div d) * n + ((x % d) * n) \div d

Money(dollars) == dollars * Unit

Abs(x) == IF x < 0 THEN -x ELSE x

RECURSIVE GCD(_, _)
GCD(a, b) == IF b = 0 THEN a ELSE GCD(b, a % b)

\* the quotient n / d of two amounts (d > 0), in lowest terms
Ratio(n, d) == LET g == GCD(Abs(n), d) IN [num |-> n \div g, den |-> d \div g]
Whole(k) == [num |-> k, den |-> 1]
Min(a, b) == IF a <= b THEN a ELSE b

\* r / k (k > 0) in lowest terms
Over(r, k) == LET g == GCD(Abs(r.num), k) IN [num |-> r.num \div g, den |-> r.den * (k \div g)]
\* r - 1
MinusOne(r) == [num |-> r.num - r.den, den |-> r.den]
\* r * k in lowest terms
Times(r, k) == LET g == GCD(Abs(k), r.den) IN [num |-> r.num * (k \div g), den |-> r.den \div g]

Levels == 0..LevelScale

----------------------------------------------------------------------------
(* EnhancedSimulationEngine.__init__: factor tables (rates in 1/RateScale) *)

labor_optimization_factors ==
    [productivity_gain |-> 250, error_reduction |-> 300, overtime_reduction |-> 350,
     setup_time_reduction |-> 200, implementation_months |-> 4, ramp_up_months |-> 2]

quality_optimization_factors ==
    [defect_reduction |-> 500, first_pass_yield_improvement |-> 100,
     rework_reduction |-> 600, scrap_reduction |-> 400,
     implementation_months |-> 6, ramp_up_months |-> 4]

inventory_optimization_factors ==
    [turnover_improvement |-> 200, safety_stock_reduction |-> 150,
     obsolescence_reduction |-> 250, carrying_cost_reduction |-> 200,
     implementation_months |-> 3, ramp_up_months |-> 2]

service_optimization_factors ==
    [response_time_improvement |-> 700, agent_productivity_gain |-> 400,
     automation_rate |-> 600, cost_per_interaction_reduction |-> 500,
     implementation_months |-> 2, ramp_up_months |-> 1]

\* the engine object after __init__
EngineInit ==
    [labor_optimization_factors |-> labor_optimization_factors,
     quality_optimization_factors |-> quality_optimization_factors,
     inventory_optimization_factors |-> inventory_optimization_factors,
     service_optimization_factors |-> service_optimization_factors]

----------------------------------------------------------------------------
(* EnhancedBaselineModel._calculate_detailed_costs *)

benefits_cost_wrong(total_labor) == Mul(total_labor, 10, 100)
benefits_cost(total_labor) == Mul(total_labor, 5, 100)

calculate_detailed_costs(labor_costs, cogs, overhead_costs) ==
    LET total_labor == labor_costs
        quality_portion == Mul(cogs, 15, 100)
        inventory_portion == Mul(overhead_costs, 25, 100)
        service_portion == Mul(overhead_costs, 10, 100)
    IN  [direct_labor_cost   |-> Mul(total_labor, 7, 10),
         indirect_labor_cost |-> Mul(total_labor, 2, 10),
         overtime_cost       |-> Mul(total_labor, 5, 100),
         benefits_cost       |-> benefits_cost(total_labor),
         rework_cost         |-> Mul(quality_portion, 4, 10),
         scrap_cost          |-> Mul(quality_portion, 3, 10),
         inspection_cost     |-> Mul(quality_portion, 2, 10),
         warranty_cost       |-> Mul(quality_portion, 1, 10),
         carrying_cost       |-> Mul(inventory_portion, 6, 10),
         storage_cost        |-> Mul(inventory_portion, 25, 100),
         obsolescence_cost   |-> Mul(inventory_portion, 10, 100),
         insurance_cost      |-> Mul(inventory_portion, 5, 100),
         agent_salaries      |-> Mul(service_portion, 7, 10),
         system_costs        |-> Mul(service_portion, 2, 10),
         training_costs      |-> Mul(service_portion, 1, 10)]

total_costs_wrong(cb) ==
    cb.carrying_cost + cb.obsolescence_cost + cb.storage_cost + cb.insurance_cost +
    cb.agent_salaries + cb.system_costs + cb.training_costs

\* CostBreakdown.total_costs
total_costs(cb) ==
    cb.direct_labor_cost + cb.indirect_labor_cost + cb.overtime_cost + cb.benefits_cost +
    cb.rework_cost + cb.scrap_cost + cb.inspection_cost + cb.warranty_cost +
    cb.carrying_cost + cb.obsolescence_cost + cb.storage_cost + cb.insurance_cost +
    cb.agent_salaries + cb.system_costs + cb.training_costs

\* EnhancedBaselineModel(...) followed by __post_init__
EnhancedBaselineModel(revenue, cogs, labor_costs, overhead_costs, production_volume, employee_count) ==
    [revenue |-> revenue, cogs |-> cogs, labor_costs |-> labor_costs,
     overhead_costs |-> overhead_costs,
     production_volume |-> production_volume, employee_count |-> employee_count,
     cost_breakdown |-> calculate_detailed_costs(labor_costs, cogs, overhead_costs)]

\* the baseline slot before a baseline is built
NoBaseline == [revenue |-> 0, cogs |-> 0, labor_costs |-> 0, overhead_costs |-> 0,
               production_volume |-> 0, employee_count |-> 0,
               cost_breakdown |-> calculate_detailed_costs(0, 0, 0)]

----------------------------------------------------------------------------
(* Optimization calculators.  automation_level is in 1/LevelScale. *)

\* factors[...] * automation_level
ImprovementRate_wrong(factor, automation_level) == factor * (automation_level \div LevelScale)
ImprovementRate(factor, automation_level) == Mul(factor, automation_level, LevelScale)

payback_months_wrong(one_time_cost, total_annual_savings) ==
    IF total_annual_savings > 0
    THEN Times(Ratio(one_time_cost, total_annual_savings), 12)
    ELSE Whole(0)

\* payback_months: one_time_cost / (total_annual_savings / 12), or the sentinel 999
payback_months(one_time_cost, total_annual_savings) ==
    IF total_annual_savings > 0
    THEN Times(Ratio(one_time_cost, total_annual_savings), 12)
    ELSE Whole(999)

\* roi_percentage: net_savings_year_1 / one_time_cost * 100, or 0
roi_percentage(net_savings_year_1, one_time_cost) ==
    IF one_time_cost > 0
    THEN Times(Ratio(net_savings_year_1, one_time_cost), 100)
    ELSE Whole(0)

labor_optimization(factors, b, automation_level) ==
    LET productivity_gain == ImprovementRate(factors.productivity_gain, automation_level)
        error_reduction == ImprovementRate(factors.error_reduction, automation_level)
        overtime_reduction == ImprovementRate(factors.overtime_reduction, automation_level)
        base_direct == Mul(b.cost_breakdown.direct_labor_cost, productivity_gain, RateScale)
        indirect_labor_savings ==
            Mul(b.cost_breakdown.indirect_labor_cost, Mul(error_reduction, 5, 10), RateScale)
        overtime_savings == Mul(b.cost_breakdown.overtime_cost, overtime_reduction, RateScale)
        direct_labor_savings ==
            IF b.employee_count > 200 THEN Mul(base_direct, 115, 100)
            ELSE IF b.employee_count < 25 THEN Mul(base_direct, 85, 100)
            ELSE base_direct
        implementation_cost_multiplier ==
            IF b.employee_count > 200 THEN 15
            ELSE IF b.employee_count < 25 THEN 25
            ELSE 20
        base_training_cost == IF b.employee_count < 50 THEN 800 ELSE 1200
        training_cost ==
            Mul(Money(b.employee_count * base_training_cost), automation_level, LevelScale)
        implementation_cost ==
            Mul(Mul(b.revenue, implementation_cost_multiplier, RateScale),
                automation_level, LevelScale)
        total_annual_savings == direct_labor_savings + indirect_labor_savings + overtime_savings
        net_savings_year_1 == total_annual_savings - training_cost - implementation_cost
    IN  [direct_labor_savings |-> direct_labor_savings,
         indirect_labor_savings |-> indirect_labor_savings,
         overtime_savings |-> overtime_savings,
         total_annual_savings |-> total_annual_savings,
         training_cost |-> training_cost,
         implementation_cost |-> implementation_cost,
         net_savings_year_1 |-> net_savings_year_1,
         payback_months |-> payback_months(training_cost + implementation_cost, total_annual_savings),
         roi_percentage |-> roi_percentage(net_savings_year_1, training_cost + implementation_cost)]

calculate_labor_optimization(b, automation_level) ==
    labor_optimization(engine.labor_optimization_factors, b, automation_level)

inspection_savings_of_wrong(inspection_cost, defect_reduction) ==
    Mul(inspection_cost, defect_reduction, RateScale)
\* inspection_savings = inspection_cost * (defect_reduction * 0.3)
inspection_savings_of(inspection_cost, defect_reduction) ==
    Mul(inspection_cost, Mul(defect_reduction, 3, 10), RateScale)

quality_optimization(factors, b, automation_level) ==
    LET defect_reduction == ImprovementRate(factors.defect_reduction, automation_level)
        rework_reduction == ImprovementRate(factors.rework_reduction, automation_level)
        scrap_reduction == ImprovementRate(factors.scrap_reduction, automation_level)
        base_rework == Mul(b.cost_breakdown.rework_cost, rework_reduction, RateScale)
        base_scrap == Mul(b.cost_breakdown.scrap_cost, scrap_reduction, RateScale)
        inspection_savings == inspection_savings_of(b.cost_breakdown.inspection_cost, defect_reduction)
        warranty_savings == Mul(b.cost_breakdown.warranty_cost, defect_reduction, RateScale)
        rework_savings ==
            IF b.production_volume > 1000000 THEN Mul(base_rework, 12, 10)
            ELSE IF b.production_volume < 100000 THEN Mul(base_rework, 8, 10)
            ELSE base_rework
        scrap_savings ==
            IF b.production_volume > 1000000 THEN Mul(base_scrap, 12, 10)
            ELSE IF b.production_volume < 100000 THEN Mul(base_scrap, 8, 10)
            ELSE base_scrap
        quality_system_cost_multiplier ==
            IF b.production_volume > 1000000 THEN 8
            ELSE IF b.production_volume < 100000 THEN 15
            ELSE 12
        quality_system_cost ==
            Mul(Mul(b.revenue, quality_system_cost_multiplier, RateScale),
                automation_level, LevelScale)
        training_cost == Mul(Money(b.employee_count * 600), automation_level, LevelScale)
        total_annual_savings == rework_savings + scrap_savings + inspection_savings + warranty_savings
        net_savings_year_1 == total_annual_savings - quality_system_cost - training_cost
    IN  [rework_savings |-> rework_savings,
         scrap_savings |-> scrap_savings,
         inspection_savings |-> inspection_savings,
         warranty_savings |-> warranty_savings,
         total_annual_savings |-> total_annual_savings,
         quality_system_cost |-> quality_system_cost,
         training_cost |-> training_cost,
         net_savings_year_1 |-> net_savings_year_1,
         payback_months |-> payback_months(quality_system_cost + training_cost, total_annual_savings),
         roi_percentage |-> roi_percentage(net_savings_year_1, quality_system_cost + training_cost)]

calculate_quality_optimization(b, automation_level) ==
    quality_optimization(engine.quality_optimization_factors, b, automation_level)

\* total_annual_savings of calculate_inventory_optimization
inventory_total_wrong(carrying_cost_savings, storage_savings, obsolescence_savings, working_capital_benefit) ==
    carrying_cost_savings + storage_savings + obsolescence_savings - working_capital_benefit
inventory_total(carrying_cost_savings, storage_savings, obsolescence_savings, working_capital_benefit) ==
    carrying_cost_savings + storage_savings + obsolescence_savings + working_capital_benefit

inventory_optimization(factors, b, automation_level) ==
    LET turnover_improvement == ImprovementRate(factors.turnover_improvement, automation_level)
        carrying_cost_reduction == ImprovementRate(factors.carrying_cost_reduction, automation_level)
        obsolescence_reduction == ImprovementRate(factors.obsolescence_reduction, automation_level)
        carrying_cost_savings == Mul(b.cost_breakdown.carrying_cost, carrying_cost_reduction, RateScale)
        storage_savings ==
            Mul(b.cost_breakdown.storage_cost, Mul(turnover_improvement, 5, 10), RateScale)
        obsolescence_savings ==
            Mul(b.cost_breakdown.obsolescence_cost, obsolescence_reduction, RateScale)
        inventory_value == Mul(b.cogs, 25, 100)
        working_capital_freed == Mul(inventory_value, turnover_improvement, RateScale)
        working_capital_benefit == Mul(working_capital_freed, 8, 100)
        system_cost == Mul(Mul(b.revenue, 8, RateScale), automation_level, LevelScale)
        training_cost == Mul(Money(b.employee_count * 500), automation_level, LevelScale)
        total_annual_savings ==
            inventory_total(carrying_cost_savings, storage_savings, obsolescence_savings,
                            working_capital_benefit)
        net_savings_year_1 == total_annual_savings - system_cost - training_cost
    IN  [carrying_cost_savings |-> carrying_cost_savings,
         storage_savings |-> storage_savings,
         obsolescence_savings |-> obsolescence_savings,
         working_capital_benefit |-> working_capital_benefit,
         working_capital_freed |-> working_capital_freed,
         total_annual_savings |-> total_annual_savings,
         system_cost |-> system_cost,
         training_cost |-> training_cost,
         net_savings_year_1 |-> net_savings_year_1,
         payback_months |-> payback_months(system_cost + training_cost, total_annual_savings),
         roi_percentage |-> roi_percentage(net_savings_year_1, system_cost + training_cost)]

calculate_inventory_optimization(b, automation_level) ==
    inventory_optimization(engine.inventory_optimization_factors, b, automation_level)

\* setup_cost of calculate_service_automation
setup_cost_wrong(automation_level) == Money(15000)
setup_cost(automation_level) == Mul(Money(15000), automation_level, LevelScale)

service_automation(factors, b, automation_level) ==
    LET automation_rate == ImprovementRate(factors.automation_rate, automation_level)
        productivity_gain == ImprovementRate(factors.agent_productivity_gain, automation_level)
        cost_reduction == ImprovementRate(factors.cost_per_interaction_reduction, automation_level)
        agent_cost_savings ==
            Mul(b.cost_breakdown.agent_salaries, Mul(automation_rate, 6, 10), RateScale)
        productivity_savings == Mul(b.cost_breakdown.agent_salaries, productivity_gain, RateScale)
        system_efficiency_savings == Mul(b.cost_breakdown.system_costs, cost_reduction, RateScale)
        automation_platform_cost == Mul(Mul(b.revenue, 5, RateScale), automation_level, LevelScale)
        total_annual_savings == agent_cost_savings + productivity_savings + system_efficiency_savings
        net_savings_year_1 ==
            total_annual_savings - automation_platform_cost - setup_cost(automation_level)
    IN  [agent_cost_savings |-> agent_cost_savings,
         productivity_savings |-> productivity_savings,
         system_efficiency_savings |-> system_efficiency_savings,
         total_annual_savings |-> total_annual_savings,
         automation_platform_cost |-> automation_platform_cost,
         setup_cost |-> setup_cost(automation_level),
         net_savings_year_1 |-> net_savings_year_1,
         payback_months |->
            payback_months(automation_platform_cost + setup_cost(automation_level), total_annual_savings),
         roi_percentage |->
            roi_percentage(net_savings_year_1, automation_platform_cost + setup_cost(automation_level))]

calculate_service_automation(b, automation_level) ==
    service_automation(engine.service_optimization_factors, b, automation_level)

----------------------------------------------------------------------------
(* Monthly projection generator *)

\* EnhancedSimulationEngine._calculate_ramp_factor, result in 1/RampScale
calculate_ramp_factor_wrong(month, implementation_months, ramp_months) ==
    IF month <= implementation_months
    THEN Mul(month, RampScale, implementation_months)
    ELSE IF month <= implementation_months + ramp_months
    THEN LET ramp_progress == Mul(month - implementation_months, RampScale, ramp_months)
         IN  RampScale + Mul(ramp_progress, 25, 100)
    ELSE Mul(RampScale, 12, 10)
calculate_ramp_factor(month, implementation_months, ramp_months) ==
    IF month <= implementation_months
    THEN Mul(month, RampScale, implementation_months)
    ELSE IF month <= implementation_months + ramp_months
    THEN LET ramp_progress == Mul(month - implementation_months, RampScale, ramp_months)
         IN  RampScale + Mul(ramp_progress, 2, 10)
    ELSE Mul(RampScale, 12, 10)

\* range(1, months + 1)
projection_months_wrong(n) == [i \in 1..(n - 1) |-> i]
projection_months(n) == [i \in 1..n |-> i]

\* cumulative_cash_flow before the first month
initial_cumulative_cash_flow_wrong(total_implementation_cost) == 0
initial_cumulative_cash_flow(total_implementation_cost) == -total_implementation_cost

\* monthly_implementation_cost
monthly_implementation_cost_wrong(month, total_implementation_cost) ==
    IF month <= 5 THEN Mul(total_implementation_cost, 1, 6) ELSE 0
monthly_implementation_cost(month, total_implementation_cost) ==
    IF month <= 6 THEN Mul(total_implementation_cost, 1, 6) ELSE 0

\* the four calculators at the supplied automation levels
calculate_optimizations(b, levels) ==
    [labor     |-> calculate_labor_optimization(b, levels.labor),
     quality   |-> calculate_quality_optimization(b, levels.quality),
     inventory |-> calculate_inventory_optimization(b, levels.inventory),
     service   |-> calculate_service_automation(b, levels.service)]

total_implementation_cost(opt) ==
    opt.labor.implementation_cost + opt.labor.training_cost +
    opt.quality.quality_system_cost + opt.quality.training_cost +
    opt.inventory.system_cost + opt.inventory.training_cost +
    opt.service.automation_platform_cost + opt.service.setup_cost

monthly_savings_wrong(annual_savings, ramp) ==
    Mul(Mul(annual_savings, 1, 12), Mul(RampScale, 12, 10) - ramp, RampScale)

\* (annual_savings / 12) * ramp
monthly_savings(annual_savings, ramp) == Mul(Mul(annual_savings, 1, 12), ramp, RampScale)

\* the body of the for loop, iterated over the months still to come
RECURSIVE projection_loop(_, _, _, _, _)
projection_loop(todo, opt, total_cost, cumulative_cash_flow, cumulative_savings) ==
    IF todo = << >> THEN << >>
    ELSE
    LET month == Head(todo)
        labor_ramp == calculate_ramp_factor(month, 4, 2)
        quality_ramp == calculate_ramp_factor(month, 6, 4)
        inventory_ramp == calculate_ramp_factor(month, 3, 2)
        service_ramp == calculate_ramp_factor(month, 2, 1)
        monthly_labor_savings == monthly_savings(opt.labor.total_annual_savings, labor_ramp)
        monthly_quality_savings == monthly_savings(opt.quality.total_annual_savings, quality_ramp)
        monthly_inventory_savings == monthly_savings(opt.inventory.total_annual_savings, inventory_ramp)
        monthly_service_savings == monthly_savings(opt.service.total_annual_savings, service_ramp)
        total_monthly_savings ==
            monthly_labor_savings + monthly_quality_savings +
            monthly_inventory_savings + monthly_service_savings
        implementation_costs == monthly_implementation_cost(month, total_cost)
        monthly_cash_flow == total_monthly_savings - implementation_costs
        new_cumulative_cash_flow == cumulative_cash_flow + monthly_cash_flow
        new_cumulative_savings == cumulative_savings + total_monthly_savings
        roi_to_date ==
            IF total_cost > 0
            THEN Times(Ratio(new_cumulative_savings - total_cost, total_cost), 100)
            ELSE Whole(0)
        projection ==
            [month |-> month,
             implementation_costs |-> implementation_costs,
             labor_savings |-> monthly_labor_savings,
             quality_savings |-> monthly_quality_savings,
             inventory_savings |-> monthly_inventory_savings,
             service_savings |-> monthly_service_savings,
             total_savings |-> total_monthly_savings,
             monthly_cash_flow |-> monthly_cash_flow,
             cumulative_cash_flow |-> new_cumulative_cash_flow,
             roi_to_date |-> roi_to_date,
             payback_achieved |-> new_cumulative_cash_flow >= 0]
    IN  <<projection>> \o
        projection_loop(Tail(todo), opt, total_cost, new_cumulative_cash_flow, new_cumulative_savings)

generate_monthly_projections(b, levels, n) ==
    LET opt == calculate_optimizations(b, levels)
        total_cost == total_implementation_cost(opt)
    IN  projection_loop(projection_months(n), opt, total_cost,
                        initial_cumulative_cash_flow(total_cost), 0)

----------------------------------------------------------------------------
(* Break-even analyzer *)

\* the break-even test of the scan
is_break_even_wrong(projection) == projection.cumulative_cash_flow > 0
is_break_even(projection) == projection.cumulative_cash_flow >= 0

\* the scan for the break-even point: the loop stops at the first hit
RECURSIVE break_even_scan(_, _)
break_even_scan(todo, total_investment) ==
    IF todo = << >>
    THEN [break_even_month |-> None, total_investment |-> total_investment]
    ELSE LET projection == Head(todo)
             invested == IF projection.implementation_costs > 0
                         THEN total_investment + projection.implementation_costs
                         ELSE total_investment
         IN  IF is_break_even(projection)
             THEN [break_even_month |-> projection.month, total_investment |-> invested]
             ELSE break_even_scan(Tail(todo), invested)

RECURSIVE sum_total_savings(_)
sum_total_savings(ps) ==
    IF ps = << >> THEN 0 ELSE Head(ps).total_savings + sum_total_savings(Tail(ps))

investment_return_wrong(monthly_savings_avg, periods, total_investment) ==
    IF total_investment > 0
    THEN Times(MinusOne(Times(Over(monthly_savings_avg, total_investment), periods)), 100)
    ELSE Whole(-100)

\* ((savings - total_investment) / total_investment) * 100 with
\* savings = monthly_savings_avg * periods, or 0 when nothing was invested
investment_return(monthly_savings_avg, periods, total_investment) ==
    IF total_investment > 0
    THEN Times(MinusOne(Times(Over(monthly_savings_avg, total_investment), periods)), 100)
    ELSE Whole(0)

analyze_break_even(ps) ==
    LET scan == break_even_scan(ps, 0)
        break_even_month == scan.break_even_month
        total_investment == scan.total_investment
        total_savings == sum_total_savings(ps)
        annual_savings ==
            IF Len(ps) >= 12 THEN sum_total_savings(SubSeq(ps, 1, 12)) ELSE total_savings
        three_year_months == Min(36, Len(ps))
        three_year_savings == sum_total_savings(SubSeq(ps, 1, three_year_months))
        five_year_roi ==
            IF Len(ps) >= 60
            THEN investment_return(Whole(sum_total_savings(SubSeq(ps, 1, 60))), 1, total_investment)
            ELSE IF Len(ps) >= 12
            THEN investment_return(Ratio(annual_savings, 12), 60, total_investment)
            ELSE investment_return(Ratio(total_savings, Len(ps)), 60, total_investment)
    IN  IF ps # << >>
        THEN [break_even_month |-> break_even_month,
              total_investment |-> total_investment,
              total_savings |-> total_savings,
              net_benefit |-> total_savings - total_investment,
              payback_achieved |-> break_even_month # None,
              cumulative_cash_flow_final |-> ps[Len(ps)].cumulative_cash_flow,
              average_monthly_savings |-> Ratio(total_savings, Len(ps)),
              roi_metrics |->
                  [total_investment |-> total_investment,
                   annual_roi |-> investment_return(Whole(annual_savings), 1, total_investment),
                   three_year_roi |-> investment_return(Whole(three_year_savings), 1, total_investment),
                   five_year_roi |-> five_year_roi,
                   payback_months |-> IF break_even_month # None THEN break_even_month ELSE Len(ps)]]
        ELSE [break_even_month |-> None,
              total_investment |-> 0,
              total_savings |-> 0,
              net_benefit |-> 0,
              payback_achieved |-> FALSE,
              cumulative_cash_flow_final |-> 0,
              roi_metrics |->
                  [total_investment |-> 0,
                   annual_roi |-> Whole(0),
                   three_year_roi |-> Whole(0),
                   five_year_roi |-> Whole(0),
                   payback_months |-> 999]]

----------------------------------------------------------------------------
(* Baseline factory.  A Python str is the sequence of its characters. *)

PyStr(chars) == [type |-> "str", chars |-> chars]
PyNone == [type |-> "NoneType", chars |-> << >>]

\* pat in s
Contains(pat, s) ==
    \E i \in 1..(Len(s) - Len(pat) + 1) : SubSeq(s, i, i + Len(pat) - 1) = pat

UpperCase == <<"A", "B", "C", "D", "E", "F", "G", "H", "I", "J", "K", "L", "M", "N", "O", "P", "Q", "R", "S", "T", "U", "V", "W", "X", "Y", "Z">>
LowerCase == <<"a", "b", "c", "d", "e", "f", "g", "h", "i", "j", "k", "l", "m", "n", "o", "p", "q", "r", "s", "t", "u", "v", "w", "x", "y", "z">>

\* str.lower
Lower(s) ==
    [i \in 1..Len(s) |->
        IF \E k \in 1..Len(UpperCase) : UpperCase[k] = s[i]
        THEN LowerCase[CHOOSE k \in 1..Len(UpperCase) : UpperCase[k] = s[i]]
        ELSE s[i]]

\* dict.get(key, default)
Get(d, key, default) == IF key \in DOMAIN d THEN d[key] ELSE default

\* the fall-through value of _parse_production_volume
production_volume_default_wrong == 1000 * 250
production_volume_default == 2000 * 250

\* EnhancedSimulationEngine._parse_production_volume
parse_production_volume(volume_str) ==
    IF Contains(<<"<", " ", "1", "0", "0">>, volume_str) \/ Contains(<<"u", "n", "d", "e", "r">>, Lower(volume_str))
    THEN 50 * 250
    ELSE IF Contains(<<"1", "0", "0", "-", "1", "0", "0", "0">>, volume_str)
    THEN 500 * 250
    ELSE IF Contains(<<"1", "0", "0", "0", "-", "1", "0", "0", "0", "0">>, volume_str)
    THEN 5000 * 250
    ELSE IF Contains(<<">", " ", "1", "0", "0", "0", "0">>, volume_str) \/ Contains(<<"o", "v", "e", "r">>, Lower(volume_str))
    THEN 15000 * 250
    ELSE production_volume_default

\* EnhancedSimulationEngine._parse_employee_count
parse_employee_count(employee_str) ==
    IF Contains(<<"1", "-", "1", "0">>, employee_str)
    THEN 5
    ELSE IF Contains(<<"1", "1", "-", "5", "0">>, employee_str)
    THEN 25
    ELSE IF Contains(<<"5", "1", "-", "2", "0", "0">>, employee_str)
    THEN 100
    ELSE IF Contains(<<"2", "0", "0", "+">>, employee_str) \/ Contains(<<"o", "v", "e", "r">>, Lower(employee_str))
    THEN 300
    ELSE 25

\* EnhancedSimulationEngine._parse_production_volume_from_analysis
parse_production_volume_from_analysis(annual_volume_str) ==
    LET volume_str == Lower(annual_volume_str)
    IN  IF Contains(<<"2", "5", ",", "0", "0", "0">>, volume_str) \/ Contains(<<"2", "5", "0", "0", "0">>, volume_str)
        THEN 25000
        ELSE IF Contains(<<"7", "5", ",", "0", "0", "0">>, volume_str) \/ Contains(<<"7", "5", "0", "0", "0">>, volume_str)
        THEN 75000
        ELSE IF Contains(<<"3", "7", "5", ",", "0", "0", "0">>, volume_str) \/ Contains(<<"3", "7", "5", "0", "0", "0">>, volume_str)
        THEN 375000
        ELSE IF Contains(<<"1", ".", "5", "m">>, volume_str) \/ Contains(<<"1", ",", "5", "0", "0", ",", "0", "0", "0">>, volume_str)
        THEN 1500000
        ELSE IF Contains(<<"7", ".", "5", "m">>, volume_str) \/ Contains(<<"7", ",", "5", "0", "0", ",", "0", "0", "0">>, volume_str)
        THEN 7500000
        ELSE IF Contains(<<"1", "5", "m">>, volume_str) \/ Contains(<<"1", "5", ",", "0", "0", "0", ",", "0", "0", "0">>, volume_str)
        THEN 15000000
        ELSE 250000

\* EnhancedSimulationEngine._parse_employee_count_enhanced (== never raises)
parse_employee_count_enhanced(size_category) ==
    IF size_category = PyStr(<<"s", "m", "a", "l", "l">>)
    THEN 15
    ELSE IF size_category = PyStr(<<"l", "a", "r", "g", "e">>)
    THEN 350
    ELSE 75

\* re.findall(r'\d+', s) as integers; run is the number read so far in the
\* current run of digits, -1 outside a run
Digits == <<"0", "1", "2", "3", "4", "5", "6", "7", "8", "9">>
IsDigit(c) == \E k \in 1..Len(Digits) : Digits[k] = c
DigitValue(c) == (CHOOSE k \in 1..Len(Digits) : Digits[k] = c) - 1

RECURSIVE find_numbers(_, _)
find_numbers(s, run) ==
    LET closed == IF run >= 0 THEN <<run>> ELSE << >>
    IN  IF s = << >>
        THEN closed
        ELSE IF IsDigit(Head(s))
        THEN find_numbers(Tail(s), (IF run >= 0 THEN run * 10 ELSE 0) + DigitValue(Head(s)))
        ELSE closed \o find_numbers(Tail(s), -1)

\* EnhancedSimulationEngine._extract_percentage
extract_percentage(percentage_str) ==
    LET numbers == find_numbers(percentage_str, -1)
    IN  IF Len(numbers) >= 2
        THEN Ratio(numbers[1] + numbers[2], 200)
        ELSE IF Len(numbers) = 1
        THEN Ratio(numbers[1], 100)
        ELSE Ratio(15, 100)

\* r < n / 100
LessThanPercent(r, n) == r.num * 100 < n * r.den

\* EnhancedSimulationEngine._estimate_manufacturing_metrics_enhanced, for an
\* analysis without automation_opportunities: the fields it sets
estimate_manufacturing_metrics_enhanced(volume, automation_level, quality_loss_pct, with_analysis) ==
    LET automation_pct ==
            IF automation_level.type = "str"
            THEN extract_percentage(automation_level.chars)
            ELSE Ratio(25, 100)
        low == LessThanPercent(automation_pct, 20)
        high == ~LessThanPercent(automation_pct, 60) /\ automation_pct # Ratio(60, 100)
    IN  [first_pass_yield |->
             IF with_analysis THEN Ratio(90, 100)
             ELSE IF low THEN Ratio(88, 100)
             ELSE IF high THEN Ratio(96, 100)
             ELSE Ratio(95, 100),
         rework_rate |->
             IF with_analysis THEN Over(Times(quality_loss_pct, 7), 10)
             ELSE IF low THEN Ratio(6, 100)
             ELSE IF high THEN Ratio(2, 100)
             ELSE Ratio(3, 100),
         scrap_rate |->
             IF with_analysis THEN Over(Times(quality_loss_pct, 3), 10)
             ELSE Ratio(2, 100),
         labor_utilization |->
             IF with_analysis THEN Ratio(82, 100)
             ELSE IF low THEN Ratio(75, 100)
             ELSE IF high THEN Ratio(88, 100)
             ELSE Ratio(85, 100),
         overtime_percentage |-> Ratio(10, 100),
         units_per_hour |->
             IF volume > 1000000 THEN 300
             ELSE IF volume < 100000 THEN 25
             ELSE 100]

NoMetrics == estimate_manufacturing_metrics_enhanced(0, PyNone, Ratio(15, 100), FALSE)

\* a dictionary argument that may be None, and `if d:`
PyDict(items) == [type |-> "dict", items |-> items]
Truthy(d) == d.type = "dict" /\ DOMAIN d.items # {}

\* EnhancedSimulationEngine.create_enhanced_baseline.  questionnaire_analysis
\* is PyNone or a dictionary; `in`, .lower() and re.findall raise on a value
\* that is not a str, and the except clause turns that into ValueError.
create_enhanced_baseline(company_data, questionnaire_analysis) ==
    LET financial_data == company_data.financial_data
        revenue == Get(financial_data, "revenue", 0)
        cogs == Get(financial_data, "cogs", 0)
        labor_costs == Get(financial_data, "labor_costs", 0)
        overhead_costs == Get(financial_data, "overhead_costs", 0)
        company_profile == company_data.company_profile
        with_analysis == Truthy(questionnaire_analysis)
        operational_assessment == Get(questionnaire_analysis.items, "operational_assessment", << >>)
        company_profile_enhanced == Get(questionnaire_analysis.items, "company_profile", << >>)
        annual_volume_str ==
            Get(operational_assessment, "production_volume_annual", PyStr(<<"2", "5", "0", ",", "0", "0", "0", " ", "u", "n", "i", "t", "s", "/", "y", "e", "a", "r">>))
        size_category == Get(company_profile_enhanced, "size_category", PyStr(<<"m", "e", "d", "i", "u", "m">>))
        quality_loss_str ==
            Get(operational_assessment, "quality_loss_percentage", PyStr(<<"1", "0", "-", "2", "0", "%">>))
        volume_str == Get(company_profile, "production_volume", PyStr(<<"1", "0", "0", "0", "-", "1", "0", "0", "0", "0", " ", "u", "n", "i", "t", "s", "/", "d", "a", "y">>))
        employee_str == Get(company_profile, "employee_count", PyStr(<<"1", "1", "-", "5", "0", " ", "e", "m", "p", "l", "o", "y", "e", "e", "s">>))
        automation_level ==
            IF with_analysis
            THEN Get(operational_assessment, "automation_percentage", PyStr(<<"2", "5", "%">>))
            ELSE Get(company_profile, "automation_level", PyStr(<<"S", "o", "m", "e", " ", "a", "u", "t", "o", "m", "a", "t", "e", "d", " ", "t", "o", "o", "l", "s">>))
        raised ==
            IF with_analysis
            THEN annual_volume_str.type # "str" \/ quality_loss_str.type # "str"
            ELSE volume_str.type # "str" \/ employee_str.type # "str"
        production_volume ==
            IF with_analysis
            THEN parse_production_volume_from_analysis(annual_volume_str.chars)
            ELSE parse_production_volume(volume_str.chars)
        employee_count ==
            IF with_analysis
            THEN parse_employee_count_enhanced(size_category)
            ELSE parse_employee_count(employee_str.chars)
        quality_loss_pct ==
            IF with_analysis THEN extract_percentage(quality_loss_str.chars) ELSE Ratio(15, 100)
    IN  IF raised
        THEN [raised |-> TRUE, baseline |-> NoBaseline,
              automation_level |-> PyNone, manufacturing_metrics |-> NoMetrics]
        ELSE [raised |-> FALSE,
              baseline |-> EnhancedBaselineModel(revenue, cogs, labor_costs, overhead_costs,
                                                 production_volume, employee_count),
              automation_level |-> automation_level,
              manufacturing_metrics |->
                  estimate_manufacturing_metrics_enhanced(production_volume, automation_level,
                                                          quality_loss_pct, with_analysis)]

\* production_volume answers: the options of GENERAL_1 and VOLUME, of the
\* assessment question q2, the string rebuilt by adjust_enhanced_simulation, ''
ProductionVolumeAnswers ==
    { <<"<", " ", "1", "0", "0", " ", "u", "n", "i", "t", "s", "/", "d", "a", "y">>,
      <<"1", "0", "0", "-", "1", "0", "0", "0", " ", "u", "n", "i", "t", "s", "/", "d", "a", "y">>,
      <<"1", "0", "0", "0", "-", "1", "0", "0", "0", "0", " ", "u", "n", "i", "t", "s", "/", "d", "a", "y">>,
      <<">", " ", "1", "0", "0", "0", "0", " ", "u", "n", "i", "t", "s", "/", "d", "a", "y">>,
      <<"<", " ", "5", "0", " ", "u", "n", "i", "t", "s", "/", "d", "a", "y">>,
      <<"5", "0", "-", "5", "0", "0", " ", "u", "n", "i", "t", "s", "/", "d", "a", "y">>,
      <<"5", "0", "0", "-", "5", "0", "0", "0", " ", "u", "n", "i", "t", "s", "/", "d", "a", "y">>,
      <<">", " ", "5", "0", "0", "0", " ", "u", "n", "i", "t", "s", "/", "d", "a", "y">>,
      <<"U", "n", "d", "e", "r", " ", "1", "0", "0", " ", "u", "n", "i", "t", "s", "/", "d", "a", "y">>,
      <<"1", "0", "0", "-", "5", "0", "0", " ", "u", "n", "i", "t", "s", "/", "d", "a", "y">>,
      <<"O", "v", "e", "r", " ", "5", "0", ",", "0", "0", "0", " ", "u", "n", "i", "t", "s", "/", "d", "a", "y">>,
      <<"1", "2", "5", "0", "0", "0", "0", " ", "u", "n", "i", "t", "s", "/", "y", "e", "a", "r">>,
      << >> }

\* employee_count answers: the options of EMPLOYEES and of q3, COMPANY_SCHEMA
\* values, the string rebuilt by adjust_enhanced_simulation, ''
EmployeeCountAnswers ==
    { <<"1", "-", "1", "0", " ", "e", "m", "p", "l", "o", "y", "e", "e", "s">>,
      <<"1", "1", "-", "5", "0", " ", "e", "m", "p", "l", "o", "y", "e", "e", "s">>,
      <<"5", "1", "-", "2", "0", "0", " ", "e", "m", "p", "l", "o", "y", "e", "e", "s">>,
      <<"2", "0", "0", "+", " ", "e", "m", "p", "l", "o", "y", "e", "e", "s">>,
      <<"1", "1", "-", "2", "5", " ", "e", "m", "p", "l", "o", "y", "e", "e", "s">>,
      <<"2", "6", "-", "5", "0", " ", "e", "m", "p", "l", "o", "y", "e", "e", "s">>,
      <<"O", "v", "e", "r", " ", "5", "0", "0", " ", "e", "m", "p", "l", "o", "y", "e", "e", "s">>,
      <<"5", "0", "0", "+">>,
      <<"1", "0", "0">>,
      <<"5", "1", "-", "1", "0", "0", " ", "e", "m", "p", "l", "o", "y", "e", "e", "s">>,
      <<"1", "0", "1", "-", "2", "5", "0", " ", "e", "m", "p", "l", "o", "y", "e", "e", "s">>,
      <<"2", "5", "1", "-", "5", "0", "0", " ", "e", "m", "p", "l", "o", "y", "e", "e", "s">>,
      <<"1", "-", "1", "0">>,
      <<"1", "1", "-", "2", "5">>,
      <<"2", "6", "-", "5", "0">>,
      <<"5", "1", "-", "1", "0", "0">>,
      <<"1", "0", "1", "-", "2", "0", "0">>,
      <<"2", "0", "1", "-", "5", "0", "0">>,
      <<"5", "1", "-", "2", "0", "0">>,
      << >> }

\* production_volume_annual strings written by the analyzer, and an unknown one
AnnualVolumeAnswers ==
    { <<"2", "5", ",", "0", "0", "0", " ", "u", "n", "i", "t", "s", "/", "y", "e", "a", "r">>,
      <<"7", "5", ",", "0", "0", "0", " ", "u", "n", "i", "t", "s", "/", "y", "e", "a", "r">>,
      <<"3", "7", "5", ",", "0", "0", "0", " ", "u", "n", "i", "t", "s", "/", "y", "e", "a", "r">>,
      <<"1", ".", "5", "M", " ", "u", "n", "i", "t", "s", "/", "y", "e", "a", "r">>,
      <<"7", ".", "5", "M", " ", "u", "n", "i", "t", "s", "/", "y", "e", "a", "r">>,
      <<"1", "5", "M", "+", " ", "u", "n", "i", "t", "s", "/", "y", "e", "a", "r">>,
      <<"2", "5", "0", ",", "0", "0", "0", " ", "u", "n", "i", "t", "s", "/", "y", "e", "a", "r">>,
      <<"u", "n", "k", "n", "o", "w", "n">> }

\* size_category values
SizeCategories ==
    { <<"s", "m", "a", "l", "l">>,
      <<"m", "e", "d", "i", "u", "m">>,
      <<"l", "a", "r", "g", "e">>,
      <<"e", "n", "t", "e", "r", "p", "r", "i", "s", "e">> }

\* automation_level / automation_percentage strings
AutomationAnswers ==
    { <<"S", "o", "m", "e", " ", "a", "u", "t", "o", "m", "a", "t", "e", "d", " ", "t", "o", "o", "l", "s">>,
      <<"M", "o", "s", "t", "l", "y", " ", "m", "a", "n", "u", "a", "l">>,
      <<"2", "5", "%">>,
      <<"6", "0", "-", "8", "0", "%">> }

\* quality_loss_percentage strings
QualityLossAnswers ==
    { <<"1", "0", "-", "2", "0", "%">>,
      <<"1", "5", "%">>,
      <<"U", "n", "k", "n", "o", "w", "n">> }

\* an absent dictionary key
Missing == [type |-> "missing", chars |-> << >>]

\* the str, None and absent values of a dictionary entry
Values(answers) == {PyStr(a) : a \in answers} \cup {PyNone, Missing}

\* the dictionary holding the entries that are present
MakeDict(fields) == [k \in {f \in DOMAIN fields : fields[f] # Missing} |-> fields[k]]

\* the analyses handed to create_enhanced_baseline: {} and dictionaries with
\* an operational_assessment and a company_profile
QuestionnaireAnalyses ==
    {PyDict(<< >>)} \cup
    { PyDict([operational_assessment |->
                  MakeDict([production_volume_annual |-> av, quality_loss_percentage |-> ql,
                            automation_percentage |-> ap]),
              company_profile |-> MakeDict([size_category |-> sc])]) :
        av \in Values(AnnualVolumeAnswers), ql \in Values(QualityLossAnswers),
        ap \in {PyStr(<<"2", "5", "%">>), Missing}, sc \in Values(SizeCategories) }

\* the company_profile of the sample request
SampleProfile ==
    [production_volume |-> PyStr(<<"1", "0", "0", "0", "-", "1", "0", "0", "0", "0", " ", "u", "n", "i", "t", "s", "/", "d", "a", "y">>),
     employee_count |-> PyStr(<<"5", "1", "-", "2", "0", "0">>),
     automation_level |-> PyStr(<<"S", "o", "m", "e", " ", "a", "u", "t", "o", "m", "a", "t", "e", "d", " ", "t", "o", "o", "l", "s">>)]

\* the (company_profile, questionnaire_analysis) pairs explored
BaselineRequests ==
    { [company_profile |->
           MakeDict([production_volume |-> pv, employee_count |-> ec, automation_level |-> al]),
       questionnaire_analysis |-> qa] :
        pv \in Values(ProductionVolumeAnswers), ec \in Values(EmployeeCountAnswers),
        al \in Values(AutomationAnswers), qa \in {PyNone, PyDict(<< >>)} }
    \cup
    { [company_profile |-> SampleProfile, questionnaire_analysis |-> qa] :
        qa \in QuestionnaireAnalyses }

\* the P&L aggregates of the baseline requests, in dollars
BaselineFinancialData == { <<0, 0, 0, 0>>, <<5000000, 3000000, 1200000, 500000>> }

NoCreation ==
    [called |-> FALSE,
     company_data |-> [financial_data |-> << >>, company_profile |-> << >>],
     questionnaire_analysis |-> PyNone,
     raised |-> FALSE,
     automation_level |-> PyNone,
     manufacturing_metrics |-> NoMetrics]

----------------------------------------------------------------------------
(* Legacy SimulationEngine *)

EfficiencyScale == 10000    \* efficiency metric 1.0

\* SimulationEngine.__init__: default_efficiency_metrics, in 1/EfficiencyScale
default_efficiency_metrics ==
    [quality_defect_rate |-> 500, labor_efficiency |-> 10000,
     inventory_turnover |-> 40000, equipment_uptime |-> 8500]

\* SimulationEngine.__init__: optimization_factors, rates in 1/EfficiencyScale
optimization_factors ==
    [labor_automation |->
         [labor_efficiency_gain |-> 1500, implementation_months |-> 3, ramp_up_months |-> 2],
     quality_automation |->
         [defect_reduction |-> 6000, implementation_months |-> 4, ramp_up_months |-> 3],
     inventory_automation |->
         [turnover_improvement |-> 2500, implementation_months |-> 2, ramp_up_months |-> 1]]

\* SimulationEngine._parse_production_volume
SimulationEngine_parse_production_volume(volume_str) ==
    IF Contains(<<"d", "a", "y">>, Lower(volume_str)) /\ Contains(<<"<", " ", "1", "0", "0">>, volume_str)
    THEN 50 * 250
    ELSE IF Contains(<<"d", "a", "y">>, Lower(volume_str)) /\ Contains(<<"1", "0", "0", "-", "1", "0", "0", "0">>, volume_str)
    THEN 500 * 250
    ELSE IF Contains(<<"d", "a", "y">>, Lower(volume_str)) /\ Contains(<<"1", "0", "0", "0", "-", "1", "0", "0", "0", "0">>, volume_str)
    THEN 5000 * 250
    ELSE IF Contains(<<"d", "a", "y">>, Lower(volume_str)) /\ Contains(<<">", " ", "1", "0", "0", "0", "0">>, volume_str)
    THEN 15000 * 250
    ELSE 500000

\* SimulationEngine._parse_employee_count
SimulationEngine_parse_employee_count(employee_str) ==
    IF Contains(<<"1", "-", "1", "0">>, employee_str)
    THEN 5
    ELSE IF Contains(<<"1", "1", "-", "5", "0">>, employee_str)
    THEN 25
    ELSE IF Contains(<<"5", "1", "-", "2", "0", "0">>, employee_str)
    THEN 100
    ELSE IF Contains(<<"2", "0", "0", "+">>, employee_str)
    THEN 300
    ELSE 25

\* SimulationEngine._estimate_efficiency_metrics
estimate_efficiency_metrics(automation_level) ==
    IF Contains(<<"f", "u", "l", "l", "y", " ", "m", "a", "n", "u", "a", "l">>, Lower(automation_level))
    THEN [default_efficiency_metrics EXCEPT !.labor_efficiency = 8500,
                                             !.quality_defect_rate = 800,
                                             !.equipment_uptime = 8000]
    ELSE IF Contains(<<"h", "i", "g", "h", "l", "y", " ", "a", "u", "t", "o", "m", "a", "t", "e", "d">>, Lower(automation_level))
    THEN [default_efficiency_metrics EXCEPT !.labor_efficiency = 11500,
                                             !.quality_defect_rate = 200,
                                             !.equipment_uptime = 9200]
    ELSE default_efficiency_metrics

\* BaselineModel(...) followed by __post_init__
BaselineModel(revenue, cogs, labor_costs, overhead_costs, production_volume, employee_count, automation_level, efficiency_metrics) ==
    [revenue |-> revenue, cogs |-> cogs, labor_costs |-> labor_costs,
     overhead_costs |-> overhead_costs,
     production_volume |-> production_volume, employee_count |-> employee_count,
     automation_level |-> automation_level,
     quality_defect_rate |-> efficiency_metrics.quality_defect_rate,
     labor_efficiency |-> efficiency_metrics.labor_efficiency,
     inventory_turnover |-> efficiency_metrics.inventory_turnover,
     equipment_uptime |-> efficiency_metrics.equipment_uptime,
     monthly_revenue |-> Mul(revenue, 1, 12),
     monthly_costs |-> Mul(cogs + labor_costs + overhead_costs, 1, 12),
     monthly_profit |-> Mul(revenue, 1, 12) - Mul(cogs + labor_costs + overhead_costs, 1, 12)]

\* SimulationEngine.create_baseline; the profile values are str
create_baseline(company_data) ==
    LET financial_data == company_data.financial_data
        company_profile == company_data.company_profile
        volume_str == Get(company_profile, "production_volume", PyStr(<<"1", "0", "0", "0", "-", "1", "0", "0", "0", "0", " ", "u", "n", "i", "t", "s", "/", "d", "a", "y">>))
        employee_str == Get(company_profile, "employee_count", PyStr(<<"1", "1", "-", "5", "0", " ", "e", "m", "p", "l", "o", "y", "e", "e", "s">>))
        automation_level == Get(company_profile, "automation_level", PyStr(<<"S", "o", "m", "e", " ", "a", "u", "t", "o", "m", "a", "t", "e", "d", " ", "t", "o", "o", "l", "s">>))
        \* _estimate_efficiency_metrics reads the profile with the default ''
        efficiency_metrics ==
            estimate_efficiency_metrics(Get(company_profile, "automation_level", PyStr(<< >>)).chars)
    IN  BaselineModel(Get(financial_data, "revenue", 0), Get(financial_data, "cogs", 0),
                      Get(financial_data, "labor_costs", 0),
                      Get(financial_data, "overhead_costs", 0),
                      SimulationEngine_parse_production_volume(volume_str.chars),
                      SimulationEngine_parse_employee_count(employee_str.chars),
                      automation_level, efficiency_metrics)

\* SimulationEngine._get_optimization_factors
get_optimization_factors(recommendation) ==
    LET category == Lower(recommendation.category)
    IN  IF Contains(<<"q", "u", "a", "l", "i", "t", "y">>, category) THEN optimization_factors.quality_automation
        ELSE IF Contains(<<"i", "n", "v", "e", "n", "t", "o", "r", "y">>, category) THEN optimization_factors.inventory_automation
        ELSE optimization_factors.labor_automation

\* SimulationEngine._apply_recommendation_improvements
apply_recommendation_improvements(b, recommendation, factors) ==
    LET metrics == [labor_efficiency |-> b.labor_efficiency,
                    quality_rate |-> b.quality_defect_rate,
                    inventory_turnover |-> b.inventory_turnover,
                    equipment_uptime |-> b.equipment_uptime]
        category == Lower(recommendation.category)
    IN  IF Contains(<<"q", "u", "a", "l", "i", "t", "y">>, category)
        THEN [metrics EXCEPT !.quality_rate =
                  Mul(b.quality_defect_rate,
                      EfficiencyScale - Get(factors, "defect_reduction", 5000), EfficiencyScale)]
        ELSE IF Contains(<<"i", "n", "v", "e", "n", "t", "o", "r", "y">>, category)
        THEN [metrics EXCEPT !.inventory_turnover =
                  Mul(b.inventory_turnover,
                      EfficiencyScale + Get(factors, "turnover_improvement", 2500), EfficiencyScale)]
        ELSE [metrics EXCEPT !.labor_efficiency =
                  Mul(b.labor_efficiency,
                      EfficiencyScale + Get(factors, "labor_efficiency_gain", 1500), EfficiencyScale)]

\* SimulationEngine._estimate_implementation_costs
estimate_implementation_costs(recommendation, b) ==
    LET effort == Lower(recommendation.implementation_effort)
        base_cost_pct == IF effort = <<"l", "o", "w">> THEN 2 ELSE IF effort = <<"h", "i", "g", "h">> THEN 10 ELSE 5
        base_cost == Mul(b.revenue, base_cost_pct, 100)
    IN  [software_license |-> Mul(base_cost, 4, 10),
         implementation_services |-> Mul(base_cost, 4, 10),
         training |-> Mul(base_cost, 1, 10),
         hardware |-> Mul(base_cost, 1, 10)]

\* the OptimizationScenario that apply_optimizations builds for one recommendation
OptimizationScenario(b, recommendation) ==
    LET opt_factors == get_optimization_factors(recommendation)
        optimized_metrics == apply_recommendation_improvements(b, recommendation, opt_factors)
    IN  [name |-> recommendation.title,
         baseline |-> b,
         applied_recommendations |-> <<recommendation>>,
         implementation_costs |-> estimate_implementation_costs(recommendation, b),
         optimized_labor_efficiency |-> optimized_metrics.labor_efficiency,
         optimized_quality_rate |-> optimized_metrics.quality_rate,
         optimized_inventory_turnover |-> optimized_metrics.inventory_turnover,
         optimized_equipment_uptime |-> optimized_metrics.equipment_uptime,
         implementation_months |-> opt_factors.implementation_months,
         ramp_up_months |-> opt_factors.ramp_up_months]

\* SimulationEngine.apply_optimizations
apply_optimizations(b, recommendations) ==
    [i \in 1..Len(recommendations) |-> OptimizationScenario(b, recommendations[i])]

\* OptimizationScenario.calculate_monthly_savings
calculate_monthly_savings(scenario, month) ==
    LET ramp_factor ==
            IF month <= scenario.implementation_months
            THEN Min(Mul(month, RampScale, scenario.implementation_months), RampScale)
            ELSE RampScale
        labor_savings ==
            Mul(Mul(Mul(scenario.baseline.labor_costs, 1, 12),
                    scenario.optimized_labor_efficiency - EfficiencyScale, EfficiencyScale),
                ramp_factor, RampScale)
        quality_savings ==
            Mul(Mul(Mul(scenario.baseline.cogs, 1, 12),
                    EfficiencyScale - scenario.optimized_quality_rate, EfficiencyScale),
                ramp_factor, RampScale)
        inventory_savings ==
            Mul(Mul(Mul(Mul(scenario.baseline.overhead_costs, 1, 12), 1, 10),
                    scenario.optimized_inventory_turnover - EfficiencyScale, EfficiencyScale),
                ramp_factor, RampScale)
    IN  [labor_savings |-> Abs(labor_savings),
         quality_savings |-> Abs(quality_savings),
         inventory_savings |-> Abs(inventory_savings),
         total_savings |-> Abs(labor_savings + quality_savings + inventory_savings)]

\* create_simulation: the company_profile built from the stored responses
RECURSIVE profile_from_responses(_, _)
profile_from_responses(rows, company_profile) ==
    IF rows = << >> THEN company_profile
    ELSE LET resp == Head(rows)
             updated ==
                 IF resp.question_id = "START"
                 THEN ("product_type" :> PyStr(resp.answer)) @@ company_profile
                 ELSE IF resp.question_id \in {"VOLUME", "GENERAL_1"}
                 THEN ("production_volume" :> PyStr(resp.answer)) @@ company_profile
                 ELSE IF resp.question_id = "EMPLOYEES"
                 THEN ("employee_count" :> PyStr(resp.answer)) @@ company_profile
                 ELSE IF resp.question_id = "AUTOMATION_CURRENT"
                 THEN ("automation_level" :> PyStr(resp.answer)) @@ company_profile
                 ELSE company_profile
         IN  profile_from_responses(Tail(rows), updated)

\* create_simulation: the profile used when the request names no session
default_company_profile ==
    [industry |-> PyStr(<<"M", "a", "n", "u", "f", "a", "c", "t", "u", "r", "i", "n", "g">>),
     product_type |-> PyStr(<<"U", "n", "k", "n", "o", "w", "n">>),
     employee_count |-> PyStr(<<"1", "1", "-", "5", "0", " ", "e", "m", "p", "l", "o", "y", "e", "e", "s">>),
     production_volume |-> PyStr(<<"1", "0", "0", "0", "-", "1", "0", "0", "0", "0", " ", "u", "n", "i", "t", "s", "/", "d", "a", "y">>),
     automation_level |-> PyStr(<<"S", "o", "m", "e", " ", "a", "u", "t", "o", "m", "a", "t", "e", "d", " ", "t", "o", "o", "l", "s">>)]

NoLegacy ==
    [pc |-> "start", with_session |-> FALSE, company_profile |-> default_company_profile,
     baseline |-> create_baseline([financial_data |-> << >>,
                                   company_profile |-> default_company_profile]),
     scenarios |-> << >>]

----------------------------------------------------------------------------
(* One simulation request *)

NoLevels == [labor |-> 0, quality |-> 0, inventory |-> 0, service |-> 0]
NoAnalysis == analyze_break_even(<< >>)

\* the P&L aggregates explored, in dollars: revenue, cogs, labor_costs, overhead_costs
FinancialData ==
    { <<0, 0, 0, 0>>,
      <<5000000, 3000000, 1200000, 500000>>,
      <<0, 0, 1200000, 0>>,
      <<5000000, 3000000, 0, 0>>,
      <<0, 3000000, 0, 500000>> }
EmployeeCounts == {0, 5, 100, 300}
ProductionVolumes == {12500, 500000, 1250000}
AutomationLevels == [labor : Levels, quality : Levels, inventory : Levels, service : Levels]

\* the worker threads that share one engine
Threads == {1, 2}

NoResult == labor_optimization(EngineInit.labor_optimization_factors, NoBaseline, 0)
NoCall == [pc |-> "idle", kind |-> "none", automation_level |-> 0, result |-> NoResult]
NoSession ==
    [exists |-> FALSE, current_question |-> "START", status |-> "in_progress",
     started_at |-> None, completed_at |-> None]
NoReply == [route |-> "none", code |-> 0, request |-> Missing]

NoSubmit == [pc |-> "idle", request |-> Missing, current_question_id |-> "START"]
NoAdjustment ==
    [called |-> FALSE, automation_levels |-> NoLevels, baseline |-> NoBaseline,
     opts |-> calculate_optimizations(NoBaseline, NoLevels)]

\* the state of the server before any request, whatever its environment
InitServer ==
    /\ engine = EngineInit
    /\ creation = NoCreation
    /\ calls = [t \in Threads |-> NoCall]
    /\ session = NoSession
    /\ responses = << >>
    /\ analysis = FALSE
    /\ reply = NoReply
    /\ now = 1
    /\ pc = "start"
    /\ baseline = NoBaseline
    /\ automation_levels = NoLevels
    /\ months = 0
    /\ opts = calculate_optimizations(NoBaseline, NoLevels)
    /\ projections = << >>
    /\ break_even = NoAnalysis
    /\ access_log = << >>
    /\ adjusted = NoAdjustment
    /\ legacy = NoLegacy
    /\ submits = [t \in Threads |-> NoSubmit]

\* RATE_LIMIT_ENABLED is not set
Init == InitServer /\ environ = Missing

CreateBaseline ==
    /\ pc = "start"
    /\ \E f \in FinancialData, e \in EmployeeCounts, v \in ProductionVolumes :
          baseline' = EnhancedBaselineModel(Money(f[1]), Money(f[2]), Money(f[3]), Money(f[4]), v, e)
    /\ pc' = "baseline"
    /\ UNCHANGED <<automation_levels, months, opts, projections, break_even>>
    /\ UNCHANGED <<engine, creation, calls, questVars, auxVars>>

GenerateMonthlyProjections ==
    /\ pc = "baseline"
    /\ \E levels \in AutomationLevels, n \in 0..MaxMonths :
          /\ automation_levels' = levels
          /\ months' = n
          /\ opts' = calculate_optimizations(baseline, levels)
          /\ projections' = generate_monthly_projections(baseline, levels, n)
    /\ pc' = "projected"
    /\ UNCHANGED <<baseline, break_even>>
    /\ UNCHANGED <<engine, creation, calls, questVars, auxVars>>

AnalyzeBreakEven ==
    /\ pc = "projected"
    /\ break_even' = analyze_break_even(projections)
    /\ pc' = "analyzed"
    /\ UNCHANGED <<baseline, automation_levels, months, opts, projections>>
    /\ UNCHANGED <<engine, creation, calls, questVars, auxVars>>

Next == CreateBaseline \/ GenerateMonthlyProjections \/ AnalyzeBreakEven

\* one create_enhanced_baseline call; a ValueError leaves the request failed
CreateEnhancedBaseline ==
    /\ pc = "start"
    /\ \E f \in BaselineFinancialData, request \in BaselineRequests :
          LET company_data ==
                  [financial_data |->
                       [revenue |-> Money(f[1]), cogs |-> Money(f[2]),
                        labor_costs |-> Money(f[3]), overhead_costs |-> Money(f[4])],
                   company_profile |-> request.company_profile]
              r == create_enhanced_baseline(company_data, request.questionnaire_analysis)
          IN  /\ creation' = [called |-> TRUE,
                              company_data |-> company_data,
                              questionnaire_analysis |-> request.questionnaire_analysis,
                              raised |-> r.raised,
                              automation_level |-> r.automation_level,
                              manufacturing_metrics |-> r.manufacturing_metrics]
              /\ baseline' = r.baseline
              /\ pc' = IF r.raised THEN "failed" ELSE "baseline"
    /\ UNCHANGED <<automation_levels, months, opts, projections, break_even>>
    /\ UNCHANGED <<engine, calls, questVars, auxVars>>

NextBaseline == CreateEnhancedBaseline

SpecBaseline == Init /\ [][NextBaseline]_vars

Spec == Init /\ [][Next]_vars

----------------------------------------------------------------------------
(* Properties *)

Projected == pc \in {"projected", "analyzed"}
Analyzed == pc = "analyzed"

\* sums over the first m projections
RECURSIVE SavingsThrough(_), ChargesThrough(_), CashFlowThrough(_)
SavingsThrough(m) == IF m = 0 THEN 0 ELSE projections[m].total_savings + SavingsThrough(m - 1)
ChargesThrough(m) == IF m = 0 THEN 0 ELSE projections[m].implementation_costs + ChargesThrough(m - 1)
CashFlowThrough(m) == IF m = 0 THEN 0 ELSE projections[m].monthly_cash_flow + CashFlowThrough(m - 1)

\* totalImplementationCost of the call that produced the projections
TotalCost == total_implementation_cost(opts)

\* C1: a reported break-even month b has cumulative_cash_flow >= 0 at month b
\* and < 0 at every earlier month; no month is reported exactly when no
\* projection has cumulative_cash_flow >= 0.
C1_BreakEvenConsistent ==
    Analyzed =>
        LET b == break_even.break_even_month
        IN  /\ b # None =>
                /\ \E i \in DOMAIN projections :
                      projections[i].month = b /\ projections[i].cumulative_cash_flow >= 0
                /\ \A i \in DOMAIN projections :
                      projections[i].month < b => projections[i].cumulative_cash_flow < 0
            /\ b = None <=>
                ~ \E i \in DOMAIN projections : projections[i].cumulative_cash_flow >= 0

C1_Witness ==
    /\ Analyzed
    /\ TotalCost > 0
    /\ break_even.break_even_month > 6

\* C2: total_investment is the sum of the implementation_costs of all
\* projections of the list, wherever the break-even falls.
C2_TotalInvestmentSumsAllCharges ==
    Analyzed => break_even.total_investment = ChargesThrough(Len(projections))

\* C3: the reported break-even month is the first month at which the savings
\* so far minus the instalments charged so far are non-negative.
C3_BreakEvenNetOfInstalments ==
    Analyzed =>
        LET net(m) == SavingsThrough(m) - ChargesThrough(m)
            hits == {m \in DOMAIN projections : net(m) >= 0}
        IN  break_even.break_even_month =
                IF hits = {} THEN None ELSE CHOOSE m \in hits : \A k \in hits : m <= k

\* C4: monthly_cash_flow = total_savings - implementation_costs, and
\* cumulative_cash_flow at month m is -totalImplementationCost plus the
\* monthly cash flows of months 1..m, totalImplementationCost being the sum
\* of the eight one-time cost items of the four calculators.
C4_CashFlowAccounting ==
    Projected =>
        \A m \in DOMAIN projections :
            /\ projections[m].monthly_cash_flow =
                   projections[m].total_savings - projections[m].implementation_costs
            /\ projections[m].cumulative_cash_flow = CashFlowThrough(m) - TotalCost

C4_Witness ==
    /\ Projected
    /\ TotalCost > 0
    /\ Len(projections) >= 7
    /\ projections[7].total_savings > 0

\* C5 as stated: for every horizon N >= 1 the instalments of months 1..N are
\* equal over the first min(N, 6) months, sum to totalImplementationCost, and
\* are 0 after month 6.
C5_InstalmentsSumToTotal ==
    (Projected /\ months >= 1) =>
        /\ ChargesThrough(Len(projections)) = TotalCost
        /\ \A m \in DOMAIN projections :
              /\ m <= Min(months, 6) =>
                    projections[m].implementation_costs = projections[1].implementation_costs
              /\ m > 6 => projections[m].implementation_costs = 0

\* C5 as amended: every month m <= 6 of the horizon is charged one sixth of
\* totalImplementationCost and every later month 0, so the instalments of
\* months 1..N sum to totalImplementationCost * min(N, 6) / 6.
C5_InstalmentsOneSixth ==
    (Projected /\ months >= 1) =>
        /\ \A m \in DOMAIN projections :
              6 * projections[m].implementation_costs = (IF m <= 6 THEN TotalCost ELSE 0)
        /\ 6 * ChargesThrough(Len(projections)) = TotalCost * Min(months, 6)

C5_Witness ==
    /\ Projected
    /\ months \in 1..5
    /\ TotalCost > 0
    /\ ChargesThrough(Len(projections)) < TotalCost

\* C6: the list has exactly N projections, with month fields 1, 2, ..., N in
\* that order.
C6_ProjectionLength ==
    Projected =>
        /\ Len(projections) = months
        /\ \A i \in DOMAIN projections : projections[i].month = i

C6_Witness ==
    /\ Projected
    /\ months = MaxMonths
    /\ Len(projections) = MaxMonths
    /\ \E k \in DOMAIN automation_levels : automation_levels[k] > 0

\* C7: for the windows (4,2), (6,4), (3,2), (2,1) the ramp factor is exactly
\* 1.2 at month = implementation + ramp and at every later month, and is at
\* most 1.2 at every month >= 1; the projected savings of such a month are the
\* monthly share of the annual savings times 1.2.
RampWindows == { <<4, 2>>, <<6, 4>>, <<3, 2>>, <<2, 1>> }
Saturated == Mul(RampScale, 12, 10)

C7_RampSaturation ==
    Projected =>
        /\ \A w \in RampWindows : \A m \in 1..months :
              /\ calculate_ramp_factor(m, w[1], w[2]) <= Saturated
              /\ m >= w[1] + w[2] => calculate_ramp_factor(m, w[1], w[2]) = Saturated
        /\ \A m \in DOMAIN projections :
              /\ m >= 4 + 2 => projections[m].labor_savings =
                                  monthly_savings(opts.labor.total_annual_savings, Saturated)
              /\ m >= 6 + 4 => projections[m].quality_savings =
                                  monthly_savings(opts.quality.total_annual_savings, Saturated)
              /\ m >= 3 + 2 => projections[m].inventory_savings =
                                  monthly_savings(opts.inventory.total_annual_savings, Saturated)
              /\ m >= 2 + 1 => projections[m].service_savings =
                                  monthly_savings(opts.service.total_annual_savings, Saturated)

C7_Witness ==
    /\ Projected
    /\ months >= 11
    /\ projections[10].quality_savings > 0
    /\ projections[11].quality_savings = projections[10].quality_savings
    /\ projections[9].quality_savings < projections[10].quality_savings

\* C8: at automation level 0 each calculator returns total_annual_savings 0,
\* both one-time cost items 0 and roi_percentage 0, for every baseline.
ZeroResult(r, cost1, cost2) ==
    /\ r.total_annual_savings = 0
    /\ cost1 = 0
    /\ cost2 = 0
    /\ r.roi_percentage = Whole(0)

C8_ZeroLevelBoundary ==
    /\ pc # "start" =>
        LET l == calculate_labor_optimization(baseline, 0)
            q == calculate_quality_optimization(baseline, 0)
            i == calculate_inventory_optimization(baseline, 0)
            s == calculate_service_automation(baseline, 0)
        IN  /\ ZeroResult(l, l.implementation_cost, l.training_cost)
            /\ ZeroResult(q, q.quality_system_cost, q.training_cost)
            /\ ZeroResult(i, i.system_cost, i.training_cost)
            /\ ZeroResult(s, s.automation_platform_cost, s.setup_cost)
    /\ Projected =>
        /\ automation_levels.labor = 0 =>
              ZeroResult(opts.labor, opts.labor.implementation_cost, opts.labor.training_cost)
        /\ automation_levels.quality = 0 =>
              ZeroResult(opts.quality, opts.quality.quality_system_cost, opts.quality.training_cost)
        /\ automation_levels.inventory = 0 =>
              ZeroResult(opts.inventory, opts.inventory.system_cost, opts.inventory.training_cost)
        /\ automation_levels.service = 0 =>
              ZeroResult(opts.service, opts.service.automation_platform_cost, opts.service.setup_cost)

C8_Witness ==
    /\ Projected
    /\ baseline.revenue > 0
    /\ baseline.overhead_costs > 0
    /\ automation_levels.service = 0
    /\ automation_levels.labor > 0
    /\ opts.labor.implementation_cost > 0

\* C9: for a fixed baseline each calculator's total_annual_savings is
\* non-decreasing in the automation level over [0, 1].
C9_SavingsMonotone ==
    pc # "start" =>
        \A a1 \in Levels, a2 \in Levels :
            a1 <= a2 =>
                /\ calculate_labor_optimization(baseline, a1).total_annual_savings
                      <= calculate_labor_optimization(baseline, a2).total_annual_savings
                /\ calculate_quality_optimization(baseline, a1).total_annual_savings
                      <= calculate_quality_optimization(baseline, a2).total_annual_savings
                /\ calculate_inventory_optimization(baseline, a1).total_annual_savings
                      <= calculate_inventory_optimization(baseline, a2).total_annual_savings
                /\ calculate_service_automation(baseline, a1).total_annual_savings
                      <= calculate_service_automation(baseline, a2).total_annual_savings

C9_Witness ==
    /\ Projected
    /\ automation_levels.inventory = LevelScale
    /\ baseline.cogs > 0
    /\ baseline.overhead_costs = 0
    /\ opts.inventory.total_annual_savings
          > calculate_inventory_optimization(baseline, 1).total_annual_savings

\* C10: the four labor fields sum to labor_costs, the four quality fields to
\* 0.15 * cogs, the four inventory fields to 0.25 * overhead_costs and the
\* three service fields to 0.10 * overhead_costs; zero aggregates give an
\* all-zero breakdown.
C10_CostConservation ==
    pc # "start" =>
        LET cb == baseline.cost_breakdown
        IN  /\ cb.direct_labor_cost + cb.indirect_labor_cost + cb.overtime_cost + cb.benefits_cost
                  = baseline.labor_costs
            /\ cb.rework_cost + cb.scrap_cost + cb.inspection_cost + cb.warranty_cost
                  = Mul(baseline.cogs, 15, 100)
            /\ cb.carrying_cost + cb.storage_cost + cb.obsolescence_cost + cb.insurance_cost
                  = Mul(baseline.overhead_costs, 25, 100)
            /\ cb.agent_salaries + cb.system_costs + cb.training_costs
                  = Mul(baseline.overhead_costs, 10, 100)
            /\ (baseline.labor_costs = 0 /\ baseline.cogs = 0 /\ baseline.overhead_costs = 0)
                  => (\A f \in DOMAIN cb : cb[f] = 0) /\ total_costs(cb) = 0

C10_Witness ==
    /\ pc = "baseline"
    /\ baseline.labor_costs > 0
    /\ baseline.cogs > 0
    /\ baseline.overhead_costs > 0
    /\ baseline.cost_breakdown.benefits_cost > 0

\* C11: for non-negative aggregates, any employee_count >= 0 (0 included) and
\* any level in [0, 1] every calculator returns a result (no quotient has a
\* zero divisor); payback_months is exactly 999 whenever
\* total_annual_savings <= 0 and roi_percentage is 0 whenever the one-time
\* cost is 0.
SentinelsHold(r, one_time_cost) ==
    /\ r.payback_months.den > 0
    /\ r.roi_percentage.den > 0
    /\ r.total_annual_savings <= 0 => r.payback_months = Whole(999)
    /\ one_time_cost = 0 => r.roi_percentage = Whole(0)

C11_NoDivisionByZero ==
    pc # "start" =>
        \A level \in Levels :
            LET l == calculate_labor_optimization(baseline, level)
                q == calculate_quality_optimization(baseline, level)
                i == calculate_inventory_optimization(baseline, level)
                s == calculate_service_automation(baseline, level)
            IN  /\ SentinelsHold(l, l.training_cost + l.implementation_cost)
                /\ SentinelsHold(q, q.quality_system_cost + q.training_cost)
                /\ SentinelsHold(i, i.system_cost + i.training_cost)
                /\ SentinelsHold(s, s.automation_platform_cost + s.setup_cost)

C11_Witness ==
    /\ Projected
    /\ baseline.employee_count = 0
    /\ baseline.revenue > 0
    /\ automation_levels.labor = LevelScale
    /\ opts.labor.total_annual_savings = 0
    /\ opts.labor.implementation_cost > 0
    /\ opts.labor.payback_months = Whole(999)
    /\ automation_levels.quality = 0
    /\ opts.quality.roi_percentage = Whole(0)

\* C17: for the baseline revenue 5,000,000 / cogs 3,000,000 / labor 1,200,000 /
\* overhead 500,000 with 100 employees, calculate_labor_optimization at level
\* 0.5 has total_annual_savings > 0 and payback_months < 999; and for every
\* baseline with labor_costs > 0 and every level in (0, 1] the labor
\* calculator's total_annual_savings is > 0.
StandardCompany ==
    /\ baseline.revenue = Money(5000000)
    /\ baseline.cogs = Money(3000000)
    /\ baseline.labor_costs = Money(1200000)
    /\ baseline.overhead_costs = Money(500000)
    /\ baseline.employee_count = 100

C17_LaborSavingsPositive ==
    pc # "start" =>
        /\ baseline.labor_costs > 0 =>
              \A level \in Levels \ {0} :
                  calculate_labor_optimization(baseline, level).total_annual_savings > 0
        /\ StandardCompany =>
              LET l == calculate_labor_optimization(baseline, LevelScale \div 2)
              IN  /\ l.total_annual_savings > 0
                  /\ l.payback_months.num < 999 * l.payback_months.den

C17_Witness ==
    /\ Projected
    /\ StandardCompany
    /\ automation_levels.labor = LevelScale \div 2
    /\ opts.labor.total_annual_savings = Money(133500)
    /\ opts.labor.payback_months = [num |-> 880, den |-> 89]

\* the values given to the defect_reduction factor while every other factor
\* keeps its value (rates in 1/RateScale)
DefectFactors == {0, 500, 1000}

WithDefectFactor(d) ==
    quality_optimization([engine.quality_optimization_factors EXCEPT !.defect_reduction = d],
                         baseline, automation_levels.quality)

\* C19 as stated: the defect-reduction rate produces savings only through
\* inspection cost, at 30% weight; rework, scrap and warranty savings do not
\* depend on it.
C19_DefectRateInspectionOnly ==
    Projected =>
        \A d \in DefectFactors :
            LET rate == Mul(d, automation_levels.quality, LevelScale)
                q == WithDefectFactor(d)
            IN  /\ q.inspection_savings =
                      Mul(Mul(baseline.cost_breakdown.inspection_cost, rate, RateScale), 3, 10)
                /\ q.rework_savings = opts.quality.rework_savings
                /\ q.scrap_savings = opts.quality.scrap_savings
                /\ q.warranty_savings = opts.quality.warranty_savings

\* C19: the defect-reduction rate produces savings through inspection cost
\* at 30% weight and through warranty cost at full weight; rework and scrap
\* savings do not depend on it.
C19_DefectRateInspectionAndWarranty ==
    Projected =>
        \A d \in DefectFactors :
            LET rate == Mul(d, automation_levels.quality, LevelScale)
                q == WithDefectFactor(d)
            IN  /\ q.inspection_savings =
                      Mul(Mul(baseline.cost_breakdown.inspection_cost, rate, RateScale), 3, 10)
                /\ q.warranty_savings = Mul(baseline.cost_breakdown.warranty_cost, rate, RateScale)
                /\ q.rework_savings = opts.quality.rework_savings
                /\ q.scrap_savings = opts.quality.scrap_savings
                /\ q.total_annual_savings =
                      q.rework_savings + q.scrap_savings + q.inspection_savings + q.warranty_savings

C19_Witness ==
    /\ Projected
    /\ automation_levels.quality = LevelScale
    /\ baseline.cogs = Money(3000000)
    /\ opts.quality.inspection_savings = Money(13500)
    /\ opts.quality.warranty_savings = Money(22500)
    /\ WithDefectFactor(0).warranty_savings = 0

\* C12: whenever total_investment is 0 (all automation levels 0, an empty
\* projection list, or no one-time cost at all) analyze_break_even returns
\* annual_roi = three_year_roi = five_year_roi = 0, and every ROI it returns
\* is a defined quotient.
C12_ZeroInvestmentZeroRoi ==
    Analyzed =>
        LET roi == break_even.roi_metrics
        IN  /\ roi.annual_roi.den > 0
            /\ roi.three_year_roi.den > 0
            /\ roi.five_year_roi.den > 0
            /\ break_even.total_investment = 0 =>
                  /\ roi.annual_roi = Whole(0)
                  /\ roi.three_year_roi = Whole(0)
                  /\ roi.five_year_roi = Whole(0)

C12_Witness ==
    /\ Analyzed
    /\ months = 12
    /\ break_even.total_investment = 0
    /\ break_even.total_savings > 0
    /\ break_even.roi_metrics.five_year_roi = Whole(0)

\* C13: with 60 or more projections five_year_roi uses the sum of
\* total_savings over months 1..60; with fewer than 60 it uses (the average
\* of total_savings over all supplied months) x 60; in both cases
\* five_year_roi = (savings - total_investment) / total_investment x 100.
C13_FiveYearRoiAverageOfAllMonths ==
    (Analyzed /\ months > 0 /\ break_even.total_investment > 0) =>
        LET n == Len(projections)
            invested == break_even.total_investment
            expected ==
                IF n >= 60
                THEN Times(MinusOne(Over(Whole(SavingsThrough(60)), invested)), 100)
                ELSE Times(MinusOne(Times(Over(Ratio(SavingsThrough(n), n), invested), 60)), 100)
        IN  break_even.roi_metrics.five_year_roi = expected

----------------------------------------------------------------------------
(* Concurrent requests on the module-level engine.  Each thread calls one  *)
(* engine method on the shared baseline; the call reads the engine when it *)
(* runs and hands back its result when it returns.                         *)

Calculators == {"labor", "quality", "inventory", "service", "projections"}

\* the levels dictionary with one level for every category
UniformLevels(level) ==
    [labor |-> level, quality |-> level, inventory |-> level, service |-> level]

\* the method of the shared engine that a thread calls
call_engine(kind, b, automation_level) ==
    CASE kind = "labor" -> calculate_labor_optimization(b, automation_level)
      [] kind = "quality" -> calculate_quality_optimization(b, automation_level)
      [] kind = "inventory" -> calculate_inventory_optimization(b, automation_level)
      [] kind = "service" -> calculate_service_automation(b, automation_level)
      [] kind = "projections" ->
            analyze_break_even(
                generate_monthly_projections(b, UniformLevels(automation_level), 12))

engine_after_call_wrong(e, kind, automation_level) ==
    [e EXCEPT !.labor_optimization_factors.productivity_gain =
                  ImprovementRate(@, automation_level)]

\* the engine object after a call: no method assigns to self or to a table
engine_after_call(e, kind, automation_level) == e

CallCalculator(t) ==
    /\ pc = "baseline"
    /\ calls[t].pc = "idle"
    /\ \E kind \in Calculators, level \in Levels :
          calls' = [calls EXCEPT ![t] = [pc |-> "running", kind |-> kind,
                                         automation_level |-> level, result |-> NoResult]]
    /\ UNCHANGED <<simVars, engine, creation, questVars, auxVars>>

ReturnCalculator(t) ==
    /\ calls[t].pc = "running"
    /\ calls' = [calls EXCEPT ![t].pc = "done",
                              ![t].result =
                                  call_engine(calls[t].kind, baseline, calls[t].automation_level)]
    /\ engine' = engine_after_call(engine, calls[t].kind, calls[t].automation_level)
    /\ UNCHANGED <<simVars, creation, questVars, auxVars>>

NextShared ==
    \/ CreateBaseline
    \/ \E t \in Threads : CallCalculator(t)
    \/ \E t \in Threads : ReturnCalculator(t)

SpecShared == Init /\ [][NextShared]_vars

\* the result of the same call made alone on a freshly constructed engine
IsolatedResult(kind, b, automation_level) ==
    CASE kind = "labor" ->
            labor_optimization(EngineInit.labor_optimization_factors, b, automation_level)
      [] kind = "quality" ->
            quality_optimization(EngineInit.quality_optimization_factors, b, automation_level)
      [] kind = "inventory" ->
            inventory_optimization(EngineInit.inventory_optimization_factors, b, automation_level)
      [] kind = "service" ->
            service_automation(EngineInit.service_optimization_factors, b, automation_level)
      [] kind = "projections" -> call_engine(kind, b, automation_level)

----------------------------------------------------------------------------
(* Questionnaire: QuestionnaireFlow and the routes that drive one session *)

\* QuestionnaireFlow.__init__: type and options of every question
question_flow ==
    [START |->
         [type |-> "select",
          options |->
              <<<<"M", "e", "t", "a", "l", " ", "P", "a", "r", "t", "s">>,
               <<"P", "l", "a", "s", "t", "i", "c", " ", "C", "o", "m", "p", "o", "n", "e", "n", "t", "s">>,
               <<"E", "l", "e", "c", "t", "r", "o", "n", "i", "c", "s">>,
               <<"T", "e", "x", "t", "i", "l", "e", "s">>,
               <<"F", "o", "o", "d", " ", "P", "r", "o", "d", "u", "c", "t", "s">>,
               <<"O", "t", "h", "e", "r">>>>],
     METAL_1 |->
         [type |-> "select",
          options |->
              <<<<"C", "N", "C", " ", "M", "a", "c", "h", "i", "n", "i", "n", "g">>,
               <<"S", "t", "a", "m", "p", "i", "n", "g">>,
               <<"C", "a", "s", "t", "i", "n", "g">>,
               <<"W", "e", "l", "d", "i", "n", "g", "/", "F", "a", "b", "r", "i", "c", "a", "t", "i", "o", "n">>>>],
     GENERAL_1 |->
         [type |-> "select",
          options |->
              <<<<"<", " ", "1", "0", "0", " ", "u", "n", "i", "t", "s", "/", "d", "a", "y">>,
               <<"1", "0", "0", "-", "1", "0", "0", "0", " ", "u", "n", "i", "t", "s", "/", "d", "a", "y">>,
               <<"1", "0", "0", "0", "-", "1", "0", "0", "0", "0", " ", "u", "n", "i", "t", "s", "/", "d", "a", "y">>,
               <<">", " ", "1", "0", "0", "0", "0", " ", "u", "n", "i", "t", "s", "/", "d", "a", "y">>>>],
     VOLUME |->
         [type |-> "select",
          options |->
              <<<<"<", " ", "5", "0", " ", "u", "n", "i", "t", "s", "/", "d", "a", "y">>,
               <<"5", "0", "-", "5", "0", "0", " ", "u", "n", "i", "t", "s", "/", "d", "a", "y">>,
               <<"5", "0", "0", "-", "5", "0", "0", "0", " ", "u", "n", "i", "t", "s", "/", "d", "a", "y">>,
               <<">", " ", "5", "0", "0", "0", " ", "u", "n", "i", "t", "s", "/", "d", "a", "y">>>>],
     EMPLOYEES |->
         [type |-> "select",
          options |->
              <<<<"1", "-", "1", "0", " ", "e", "m", "p", "l", "o", "y", "e", "e", "s">>,
               <<"1", "1", "-", "5", "0", " ", "e", "m", "p", "l", "o", "y", "e", "e", "s">>,
               <<"5", "1", "-", "2", "0", "0", " ", "e", "m", "p", "l", "o", "y", "e", "e", "s">>,
               <<"2", "0", "0", "+", " ", "e", "m", "p", "l", "o", "y", "e", "e", "s">>>>],
     PAIN_POINTS |->
         [type |-> "text",
          options |->
              << >>],
     QUALITY_CONTROL |->
         [type |-> "select",
          options |->
              <<<<"M", "a", "n", "u", "a", "l", " ", "i", "n", "s", "p", "e", "c", "t", "i", "o", "n">>,
               <<"S", "t", "a", "t", "i", "s", "t", "i", "c", "a", "l", " ", "s", "a", "m", "p", "l", "i", "n", "g">>,
               <<"A", "u", "t", "o", "m", "a", "t", "e", "d", " ", "t", "e", "s", "t", "i", "n", "g">>,
               <<"T", "h", "i", "r", "d", "-", "p", "a", "r", "t", "y", " ", "i", "n", "s", "p", "e", "c", "t", "i", "o", "n">>,
               <<"N", "o", " ", "f", "o", "r", "m", "a", "l", " ", "p", "r", "o", "c", "e", "s", "s">>>>],
     INVENTORY |->
         [type |-> "select",
          options |->
              <<<<"M", "a", "n", "u", "a", "l", " ", "t", "r", "a", "c", "k", "i", "n", "g", " ", "(", "s", "p", "r", "e", "a", "d", "s", "h", "e", "e", "t", "s", "/", "p", "a", "p", "e", "r", ")">>,
               <<"B", "a", "s", "i", "c", " ", "s", "o", "f", "t", "w", "a", "r", "e", " ", "s", "y", "s", "t", "e", "m">>,
               <<"E", "R", "P", " ", "s", "y", "s", "t", "e", "m">>,
               <<"J", "u", "s", "t", "-", "i", "n", "-", "t", "i", "m", "e", " ", "a", "p", "p", "r", "o", "a", "c", "h">>,
               <<"N", "o", " ", "f", "o", "r", "m", "a", "l", " ", "s", "y", "s", "t", "e", "m">>>>],
     CUSTOMER_SERVICE |->
         [type |-> "select",
          options |->
              <<<<"<", " ", "1", "0", " ", "i", "n", "q", "u", "i", "r", "i", "e", "s">>,
               <<"1", "0", "-", "5", "0", " ", "i", "n", "q", "u", "i", "r", "i", "e", "s">>,
               <<"5", "0", "-", "2", "0", "0", " ", "i", "n", "q", "u", "i", "r", "i", "e", "s">>,
               <<">", " ", "2", "0", "0", " ", "i", "n", "q", "u", "i", "r", "i", "e", "s">>>>],
     AUTOMATION_CURRENT |->
         [type |-> "select",
          options |->
              <<<<"F", "u", "l", "l", "y", " ", "m", "a", "n", "u", "a", "l", " ", "o", "p", "e", "r", "a", "t", "i", "o", "n", "s">>,
               <<"S", "o", "m", "e", " ", "a", "u", "t", "o", "m", "a", "t", "e", "d", " ", "t", "o", "o", "l", "s">>,
               <<"P", "a", "r", "t", "i", "a", "l", "l", "y", " ", "a", "u", "t", "o", "m", "a", "t", "e", "d">>,
               <<"H", "i", "g", "h", "l", "y", " ", "a", "u", "t", "o", "m", "a", "t", "e", "d">>,
               <<"F", "u", "l", "l", "y", " ", "a", "u", "t", "o", "m", "a", "t", "e", "d">>>>],
     AUTOMATION_INTEREST |->
         [type |-> "text",
          options |->
              << >>],
     BUDGET |->
         [type |-> "select",
          options |->
              <<<<"<", " ", "$", "1", "0", ",", "0", "0", "0">>,
               <<"$", "1", "0", ",", "0", "0", "0", " ", "-", " ", "$", "5", "0", ",", "0", "0", "0">>,
               <<"$", "5", "0", ",", "0", "0", "0", " ", "-", " ", "$", "2", "0", "0", ",", "0", "0", "0">>,
               <<"$", "2", "0", "0", ",", "0", "0", "0", " ", "-", " ", "$", "5", "0", "0", ",", "0", "0", "0">>,
               <<">", " ", "$", "5", "0", "0", ",", "0", "0", "0">>>>],
     TIMELINE |->
         [type |-> "select",
          options |->
              <<<<"I", "m", "m", "e", "d", "i", "a", "t", "e", " ", "(", "<", " ", "1", " ", "m", "o", "n", "t", "h", ")">>,
               <<"S", "h", "o", "r", "t", "-", "t", "e", "r", "m", " ", "(", "1", "-", "3", " ", "m", "o", "n", "t", "h", "s", ")">>,
               <<"M", "e", "d", "i", "u", "m", "-", "t", "e", "r", "m", " ", "(", "3", "-", "1", "2", " ", "m", "o", "n", "t", "h", "s", ")">>,
               <<"L", "o", "n", "g", "-", "t", "e", "r", "m", " ", "(", "1", "+", " ", "y", "e", "a", "r", "s", ")">>>>]]

NoQuestion == "None"

route_from_start_wrong(answer) == "START"

\* QuestionnaireFlow._route_from_start
route_from_start(answer) ==
    IF answer = PyStr(<<"M", "e", "t", "a", "l", " ", "P", "a", "r", "t", "s">>) THEN "METAL_1" ELSE "GENERAL_1"

\* the "next" entry of question q applied to the answer
next_question(q, answer) ==
    CASE q = "START" -> route_from_start(answer)
      [] q = "METAL_1" -> "VOLUME"
      [] q = "GENERAL_1" -> "EMPLOYEES"
      [] q = "VOLUME" -> "EMPLOYEES"
      [] q = "EMPLOYEES" -> "PAIN_POINTS"
      [] q = "PAIN_POINTS" -> "QUALITY_CONTROL"
      [] q = "QUALITY_CONTROL" -> "INVENTORY"
      [] q = "INVENTORY" -> "CUSTOMER_SERVICE"
      [] q = "CUSTOMER_SERVICE" -> "AUTOMATION_CURRENT"
      [] q = "AUTOMATION_CURRENT" -> "AUTOMATION_INTEREST"
      [] q = "AUTOMATION_INTEREST" -> "BUDGET"
      [] q = "BUDGET" -> "TIMELINE"
      [] q = "TIMELINE" -> "COMPLETE"

\* QuestionnaireFlow.get_next_question_id
get_next_question_id(current_question_id, answer) ==
    IF current_question_id \notin DOMAIN question_flow
    THEN NoQuestion
    ELSE LET next_id == next_question(current_question_id, answer)
         IN  IF next_id # "COMPLETE" THEN next_id ELSE NoQuestion

\* QuestionnaireFlow.is_complete
is_complete(current_question_id, answer) ==
    get_next_question_id(current_question_id, answer) = NoQuestion

\* str.strip
Whitespace == {" ", "\t", "\n", "\r"}
RECURSIVE LStrip(_), RStrip(_)
LStrip(s) == IF s # << >> /\ Head(s) \in Whitespace THEN LStrip(Tail(s)) ELSE s
RStrip(s) ==
    IF s # << >> /\ s[Len(s)] \in Whitespace THEN RStrip(SubSeq(s, 1, Len(s) - 1)) ELSE s
Strip(s) == RStrip(LStrip(s))

\* QuestionnaireFlow.validate_answer (no question has type 'number')
validate_answer(question_id, answer) ==
    IF question_id \notin DOMAIN question_flow
    THEN FALSE
    ELSE LET question == question_flow[question_id]
         IN  IF question.type = "select"
             THEN /\ answer.type = "str"
                  /\ \E i \in 1..Len(question.options) : question.options[i] = answer.chars
             ELSE IF question.type = "text"
             THEN answer.type = "str" /\ Len(Strip(answer.chars)) > 0
             ELSE FALSE

\* a JSON answer that is not a string
PyInt == [type |-> "int", chars |-> << >>]

\* the answers explored for a question: every option of START, the first two
\* options of EMPLOYEES, the first option of the other select questions, one
\* text
ValidAnswers(question_id) ==
    LET question == question_flow[question_id]
        explored == IF question_id = "START" THEN Len(question.options)
                    ELSE IF question_id = "EMPLOYEES" THEN 2
                    ELSE 1
    IN  IF question.type = "select"
        THEN {PyStr(question.options[i]) : i \in 1..explored}
        ELSE {PyStr(<<"L", "o", "n", "g", " ", "l", "e", "a", "d", " ", "t", "i", "m", "e", "s">>)}

\* answers that no question accepts
InvalidAnswers ==
    {PyStr(<<"I", "n", "v", "a", "l", "i", "d", " ", "O", "p", "t", "i", "o", "n">>), PyStr(<< >>), PyStr(<<" ", " ">>), PyInt}

\* the request bodies explored: no JSON (Missing), no answer (PyNone), answers
Requests(question_id) == {Missing, PyNone} \cup InvalidAnswers \cup ValidAnswers(question_id)

MaxClock == 3       \* latest instant of datetime.utcnow() explored

\* time passes
Tick ==
    /\ now < MaxClock
    /\ now' = now + 1
    /\ UNCHANGED <<simVars, engine, creation, calls, session, responses, analysis, reply, auxVars>>

\* start_questionnaire, for the session followed here
StartQuestionnaire ==
    /\ ~session.exists
    /\ session' = [exists |-> TRUE, current_question |-> "START", status |-> "in_progress",
                   started_at |-> now, completed_at |-> None]
    /\ reply' = [route |-> "start_questionnaire", code |-> 200, request |-> Missing]
    /\ UNCHANGED <<simVars, engine, creation, calls, responses, analysis, now, auxVars>>

session_is_active_wrong(s) == TRUE

\* session.status != 'in_progress' is rejected
session_is_active(s) == s.status = "in_progress"

\* the HTTP status of submit_answer
submit_answer_code(request) ==
    IF request = Missing THEN 400
    ELSE IF request = PyNone THEN 400
    ELSE IF ~session.exists THEN 404
    ELSE IF ~session_is_active(session) THEN 400
    ELSE IF ~validate_answer(session.current_question, request) THEN 400
    ELSE 200

\* submit_answer
SubmitAnswer(request) ==
    LET code == submit_answer_code(request)
        current_question_id == session.current_question
    IN  /\ reply' = [route |-> "submit_answer", code |-> code, request |-> request]
        /\ IF code = 200
           THEN /\ responses' = Append(responses, [question_id |-> current_question_id,
                                                   answer |-> request.chars])
                /\ IF is_complete(current_question_id, request)
                   THEN /\ session' = [session EXCEPT !.status = "completed",
                                                      !.completed_at = now]
                        /\ analysis' \in BOOLEAN
                   ELSE /\ session' = [session EXCEPT !.current_question =
                                           get_next_question_id(current_question_id, request)]
                        /\ analysis' = analysis
           ELSE UNCHANGED <<session, responses, analysis>>
        /\ UNCHANGED <<simVars, engine, creation, calls, now, auxVars>>

SubmitAnyAnswer == \E request \in Requests(session.current_question) : SubmitAnswer(request)

\* an answer the current question accepts, given to a session in progress
SubmitValidAnswer ==
    /\ session.exists
    /\ session.status = "in_progress"
    /\ \E request \in ValidAnswers(session.current_question) : SubmitAnswer(request)

responses_after_restart_wrong(rows) == rows

\* QuestionnaireResponse.query.filter_by(session_id=session_id).delete()
responses_after_restart(rows) == << >>

\* restart_questionnaire
RestartQuestionnaire ==
    /\ reply' = [route |-> "restart_questionnaire",
                 code |-> IF session.exists THEN 200 ELSE 404, request |-> Missing]
    /\ IF session.exists
       THEN /\ responses' = responses_after_restart(responses)
            /\ analysis' = FALSE
            /\ session' = [session EXCEPT !.current_question = "START",
                                          !.status = "in_progress",
                                          !.completed_at = None,
                                          !.started_at = now]
       ELSE UNCHANGED <<session, responses, analysis>>
    /\ UNCHANGED <<simVars, engine, creation, calls, now, auxVars>>

NextQuestionnaire == Tick \/ StartQuestionnaire \/ SubmitAnyAnswer \/ RestartQuestionnaire

SpecQuestionnaire == Init /\ [][NextQuestionnaire]_vars

\* a respondent who starts the questionnaire and keeps giving valid answers
NextFlow == StartQuestionnaire \/ SubmitValidAnswer

SpecFlow ==
    Init /\ [][NextFlow]_vars /\ WF_vars(StartQuestionnaire) /\ WF_vars(SubmitValidAnswer)

----------------------------------------------------------------------------
(* Questionnaire properties *)

Completed == session.status = "completed"
AnsweredQuestions == {responses[i].question_id : i \in 1..Len(responses)}

\* C18 as stated: completion is reached only at TIMELINE and after exactly
\* 12 answered questions.
C18_TwelveAnswers ==
    Completed =>
        /\ responses[Len(responses)].question_id = "TIMELINE"
        /\ Len(responses) = 12

\* C18: starting from START and giving any valid answer at each step the
\* questionnaire terminates: no question is asked twice, every question
\* reached accepts some answer, completion happens only at TIMELINE, after
\* 12 answered questions on the Metal Parts path and 11 on every other path.
C18_FlowTerminates ==
    /\ [](/\ Cardinality(AnsweredQuestions) = Len(responses)
          /\ (session.exists /\ ~Completed) =>
                /\ session.current_question \in DOMAIN question_flow
                /\ session.current_question \notin AnsweredQuestions
                /\ \E a \in ValidAnswers(session.current_question) :
                      validate_answer(session.current_question, a)
          /\ Completed =>
                /\ responses[Len(responses)].question_id = "TIMELINE"
                /\ session.current_question = "TIMELINE"
                /\ Len(responses) =
                      IF responses[1].answer = <<"M", "e", "t", "a", "l", " ", "P", "a", "r", "t", "s">> THEN 12 ELSE 11)
    /\ <>Completed

C18_Witness ==
    /\ Completed
    /\ Len(responses) = 11
    /\ responses[1].answer = <<"E", "l", "e", "c", "t", "r", "o", "n", "i", "c", "s">>
    /\ responses[2].question_id = "GENERAL_1"

\* C20: submit_answer is state-preserving on rejection: if the session does
\* not exist, its status is not 'in_progress' or validate_answer rejects the
\* answer for the current question, the request returns an error and the
\* session's current_question, status, completed_at and stored responses are
\* unchanged.
C20_RejectionPreservesState ==
    [][\A request \in Requests(session.current_question) :
          (/\ SubmitAnswer(request)
           /\ \/ ~session.exists
              \/ session.status # "in_progress"
              \/ ~validate_answer(session.current_question, request))
          => /\ reply'.code \in {400, 404}
             /\ session'.current_question = session.current_question
             /\ session'.status = session.status
             /\ session'.completed_at = session.completed_at
             /\ responses' = responses]_vars

C20_Witness ==
    /\ reply.route = "submit_answer"
    /\ reply.code = 400
    /\ reply.request = PyStr(<<"I", "n", "v", "a", "l", "i", "d", " ", "O", "p", "t", "i", "o", "n">>)
    /\ session.exists
    /\ session.status = "in_progress"
    /\ session.current_question = "EMPLOYEES"
    /\ Len(responses) = 2

----------------------------------------------------------------------------
(* Baseline factory properties *)

Created == creation.called
FromAnalysis == Truthy(creation.questionnaire_analysis)
GivenProfile == creation.company_data.company_profile
GivenAssessment == Get(creation.questionnaire_analysis.items, "operational_assessment", << >>)
GivenProfileEnhanced == Get(creation.questionnaire_analysis.items, "company_profile", << >>)

\* every value the call reads is a str
StringValues(d) == \A k \in DOMAIN d : d[k].type = "str"
StringInputs ==
    IF FromAnalysis
    THEN StringValues(GivenAssessment) /\ StringValues(GivenProfileEnhanced)
    ELSE StringValues(GivenProfile)

\* the bucket patterns of the four parsers
KnownVolumeBucket(s) ==
    \/ \E p \in {<<"<", " ", "1", "0", "0">>, <<"1", "0", "0", "-", "1", "0", "0", "0">>, <<"1", "0", "0", "0", "-", "1", "0", "0", "0", "0">>, <<">", " ", "1", "0", "0", "0", "0">>} : Contains(p, s)
    \/ \E p \in {<<"u", "n", "d", "e", "r">>, <<"o", "v", "e", "r">>} : Contains(p, Lower(s))
KnownEmployeeBucket(s) ==
    \/ \E p \in {<<"1", "-", "1", "0">>, <<"1", "1", "-", "5", "0">>, <<"5", "1", "-", "2", "0", "0">>, <<"2", "0", "0", "+">>} : Contains(p, s)
    \/ Contains(<<"o", "v", "e", "r">>, Lower(s))
KnownAnnualVolume(s) ==
    \E p \in {<<"2", "5", ",", "0", "0", "0">>, <<"2", "5", "0", "0", "0">>, <<"7", "5", ",", "0", "0", "0">>, <<"7", "5", "0", "0", "0">>, <<"3", "7", "5", ",", "0", "0", "0">>, <<"3", "7", "5", "0", "0", "0">>, <<"1", ".", "5", "m">>, <<"1", ",", "5", "0", "0", ",", "0", "0", "0">>, <<"7", ".", "5", "m">>, <<"7", ",", "5", "0", "0", ",", "0", "0", "0">>, <<"1", "5", "m">>, <<"1", "5", ",", "0", "0", "0", ",", "0", "0", "0">>} :
        Contains(p, Lower(s))
KnownSizeCategory(v) == v \in {PyStr(<<"s", "m", "a", "l", "l">>), PyStr(<<"l", "a", "r", "g", "e">>)}

\* a supplied answer that matches no bucket pattern of the parser that reads it
UnmatchedVolume ==
    IF FromAnalysis
    THEN /\ "production_volume_annual" \in DOMAIN GivenAssessment
         /\ ~KnownAnnualVolume(GivenAssessment.production_volume_annual.chars)
    ELSE /\ "production_volume" \in DOMAIN GivenProfile
         /\ ~KnownVolumeBucket(GivenProfile.production_volume.chars)
UnmatchedEmployees ==
    IF FromAnalysis
    THEN /\ "size_category" \in DOMAIN GivenProfileEnhanced
         /\ ~KnownSizeCategory(GivenProfileEnhanced.size_category)
    ELSE /\ "employee_count" \in DOMAIN GivenProfile
         /\ ~KnownEmployeeBucket(GivenProfile.employee_count.chars)

\* the returned baseline carries the supplied aggregates and their breakdown
CompleteBaseline ==
    LET f == creation.company_data.financial_data
    IN  /\ baseline.revenue = f.revenue
        /\ baseline.cogs = f.cogs
        /\ baseline.labor_costs = f.labor_costs
        /\ baseline.overhead_costs = f.overhead_costs
        /\ total_costs(baseline.cost_breakdown) =
              f.labor_costs + Mul(f.cogs, 15, 100) + Mul(f.overhead_costs, 35, 100)
        /\ creation.manufacturing_metrics.units_per_hour \in {25, 100, 300}

\* C14 as stated: create_enhanced_baseline never raises for string values of
\* production_volume, employee_count and automation_level; an answer that
\* matches no known pattern is replaced by the default (production_volume
\* 500,000; employee_count 25) and a complete baseline is returned.
C14_DefaultsOnUnknownBucket ==
    (Created /\ StringInputs) =>
        /\ ~creation.raised
        /\ pc = "baseline"
        /\ UnmatchedVolume => baseline.production_volume = 500000
        /\ UnmatchedEmployees => baseline.employee_count = 25
        /\ CompleteBaseline

\* C14: create_enhanced_baseline never raises for string values; without a
\* questionnaire analysis an unmatched production_volume becomes 500,000 and
\* an unmatched employee_count becomes 25; with a questionnaire analysis an
\* unmatched production_volume_annual becomes 250,000 and a size_category
\* other than small or large becomes 75; a complete baseline is returned.
C14_DefaultsPerPath ==
    (Created /\ StringInputs) =>
        /\ ~creation.raised
        /\ pc = "baseline"
        /\ UnmatchedVolume =>
              baseline.production_volume = IF FromAnalysis THEN 250000 ELSE 500000
        /\ UnmatchedEmployees =>
              baseline.employee_count = IF FromAnalysis THEN 75 ELSE 25
        /\ CompleteBaseline

C14_Witness ==
    /\ Created
    /\ ~FromAnalysis
    /\ StringInputs
    /\ DOMAIN GivenProfile = {"production_volume", "employee_count", "automation_level"}
    /\ GivenProfile.production_volume = PyStr(<<"5", "0", "-", "5", "0", "0", " ", "u", "n", "i", "t", "s", "/", "d", "a", "y">>)
    /\ GivenProfile.employee_count = PyStr(<<"5", "0", "0", "+">>)
    /\ baseline.production_volume = 500000
    /\ baseline.employee_count = 25
    /\ baseline.revenue = Money(5000000)

\* C15: the lookup maps volume bucket "100-500 units/day" to 500 x 250 =
\* 125,000 annual units, employee bucket "11-50 employees" to 25 employees
\* and size category "small" to 15 employees.
C15_BucketLookup ==
    (Created /\ ~creation.raised) =>
        /\ (/\ ~FromAnalysis
            /\ Get(GivenProfile, "production_volume", Missing) = PyStr(<<"1", "0", "0", "-", "5", "0", "0", " ", "u", "n", "i", "t", "s", "/", "d", "a", "y">>))
              => baseline.production_volume = 500 * 250
        /\ (/\ ~FromAnalysis
            /\ Get(GivenProfile, "employee_count", Missing) = PyStr(<<"1", "1", "-", "5", "0", " ", "e", "m", "p", "l", "o", "y", "e", "e", "s">>))
              => baseline.employee_count = 25
        /\ (/\ FromAnalysis
            /\ Get(GivenProfileEnhanced, "size_category", Missing) = PyStr(<<"s", "m", "a", "l", "l">>))
              => baseline.employee_count = 15

----------------------------------------------------------------------------
(* Questionnaire session life cycle *)

\* a submit_answer request that is accepted at TIMELINE
AcceptedAtTimeline ==
    /\ session.exists
    /\ session.current_question = "TIMELINE"
    /\ \E request \in Requests("TIMELINE") :
          /\ validate_answer("TIMELINE", request)
          /\ SubmitAnswer(request)

\* C21: a session's status changes only in_progress -> completed (by
\* accepting a valid answer to TIMELINE) and any -> in_progress (by
\* restart_questionnaire); a completed session accepts no answer and stores
\* no response until it is restarted, and a restart leaves the session at
\* current_question = 'START' with no stored responses or analysis.
C21_SessionLifeCycle ==
    [][/\ session'.status # session.status =>
             \/ /\ session.status = "in_progress"
                /\ session'.status = "completed"
                /\ AcceptedAtTimeline
             \/ /\ session'.status = "in_progress"
                /\ RestartQuestionnaire
       /\ (Completed /\ ~RestartQuestionnaire) =>
             /\ responses' = responses
             /\ session'.status = "completed"
             /\ session'.current_question = session.current_question
       /\ (session.exists /\ RestartQuestionnaire) =>
             /\ session'.status = "in_progress"
             /\ session'.current_question = "START"
             /\ session'.completed_at = None
             /\ responses' = << >>
             /\ analysis' = FALSE]_vars

C21_Witness ==
    /\ Completed
    /\ Len(responses) = 12
    /\ reply.route = "submit_answer"
    /\ reply.code = 400
    /\ validate_answer("TIMELINE", reply.request)
    /\ session.started_at > 1

(* Keys of the break-even dictionary *)
\* break_even.get('final_roi_percentage', 0) in create_enhanced_simulation
metrics_roi_percentage(be) ==
    IF "final_roi_percentage" \in DOMAIN be THEN be["final_roi_percentage"] ELSE Whole(0)

\* C22: for every non-empty projection list the dictionary returned by
\* analyze_break_even has a final_roi_percentage entry (the one the test
\* script prints and the route reports as metrics.roi_percentage)
C22_FinalRoiPercentagePresent ==
    (Analyzed /\ Len(projections) > 0) =>
        /\ "final_roi_percentage" \in DOMAIN break_even
        /\ metrics_roi_percentage(break_even) = break_even["final_roi_percentage"]

----------------------------------------------------------------------------
(* Rate limiting *)

MaxRequests == 2        \* max_requests of the decorated route
WindowSeconds == 2      \* window_seconds of the decorated route
MaxLog == 4             \* requests followed on the decorated route

\* the keys f"ip_{request.remote_addr}" of two clients
Keys == {"ip_10.0.0.1", "ip_10.0.0.2"}

\* values of RATE_LIMIT_ENABLED: unset, and three settings
Environments == {Missing, PyStr(<<"t", "r", "u", "e">>), PyStr(<<"T", "R", "U", "E">>), PyStr(<<"f", "a", "l", "s", "e">>)}

\* RateLimiter.__init__
RateLimiter(env) ==
    [requests |-> << >>,
     enabled |-> Lower(IF env = Missing THEN <<"f", "a", "l", "s", "e">> ELSE env.chars) = <<"t", "r", "u", "e">>]

\* RateLimiter.is_allowed at instant at: the answer and the limiter afterwards
is_allowed(limiter, key, limit, window_seconds, at) ==
    IF ~limiter.enabled
    THEN [allowed |-> TRUE, limiter |-> limiter]
    ELSE LET window_start == at - window_seconds
             Recent(req_time) == req_time > window_start
             kept == IF key \in DOMAIN limiter.requests
                     THEN SelectSeq(limiter.requests[key], Recent)
                     ELSE << >>
         IN  IF Len(kept) >= limit
             THEN [allowed |-> FALSE,
                   limiter |-> [limiter EXCEPT !.requests = (key :> kept) @@ @]]
             ELSE [allowed |-> TRUE,
                   limiter |-> [limiter EXCEPT !.requests = (key :> Append(kept, at)) @@ @]]

\* decorated_function of rate_limit(MaxRequests, WindowSeconds): the limiter
\* is constructed by the call and is gone when the call returns
RateLimitedRequest(key) ==
    /\ Len(access_log) < MaxLog
    /\ LET limiter == RateLimiter(environ)
           answer == is_allowed(limiter, key, MaxRequests, WindowSeconds, now)
       IN  access_log' = Append(access_log,
                                [key |-> key, at |-> now,
                                 code |-> IF answer.allowed THEN 200 ELSE 429])
    /\ UNCHANGED <<simVars, engine, creation, calls, questVars>>
    /\ UNCHANGED <<environ, adjusted, legacy, submits>>

InitRateLimit == InitServer /\ environ \in Environments

NextRateLimit == Tick \/ \E key \in Keys : RateLimitedRequest(key)

SpecRateLimit == InitRateLimit /\ [][NextRateLimit]_vars

RateLimitingEnabled == RateLimiter(environ).enabled

\* the requests of log[i]'s key accepted in the window that ends with log[i]
AcceptedInWindow(i) ==
    {j \in 1..i : /\ access_log[j].key = access_log[i].key
                  /\ access_log[j].code = 200
                  /\ access_log[j].at > access_log[i].at - WindowSeconds}

\* C23: with rate limiting enabled, at most MaxRequests requests of one key
\* are accepted within any window of WindowSeconds; a request that finds
\* MaxRequests accepted ones of its key inside the window is answered 429
C23_AtMostMaxRequestsPerWindow ==
    RateLimitingEnabled =>
        \A i \in 1..Len(access_log) :
            /\ Cardinality(AcceptedInWindow(i)) <= MaxRequests
            /\ Cardinality(AcceptedInWindow(i) \ {i}) >= MaxRequests => access_log[i].code = 429

----------------------------------------------------------------------------
(* Stability of payback and size of the savings *)

\* C24: payback_achieved is stable along a projection series: once true at
\* some month it is true at every later month, months <= 6 included
C24_PaybackStable ==
    Projected =>
        \A m \in 1..Len(projections) : \A later \in m..Len(projections) :
            projections[m].payback_achieved => projections[later].payback_achieved

\* payback is reached while instalments are still being charged
C24_Witness ==
    /\ Projected
    /\ \E m \in 1..Len(projections) :
          /\ m < 6
          /\ m < Len(projections)
          /\ TotalCost > 0
          /\ projections[m].payback_achieved
          /\ projections[m + 1].implementation_costs > 0
          /\ projections[m + 1].payback_achieved

\* the sum of the four calculators' total_annual_savings
TotalAnnualSavings ==
    opts.labor.total_annual_savings + opts.quality.total_annual_savings +
    opts.inventory.total_annual_savings + opts.service.total_annual_savings

\* metrics.total_optimized_costs of create_enhanced_simulation
total_optimized_costs == total_costs(baseline.cost_breakdown) - TotalAnnualSavings

\* C25: the four calculators' total_annual_savings together never exceed
\* cost_breakdown.total_costs(), so total_optimized_costs is never negative
C25_SavingsWithinCosts ==
    Projected =>
        /\ TotalAnnualSavings <= total_costs(baseline.cost_breakdown)
        /\ total_optimized_costs >= 0

\* the largest savings the calculators return: every level at 1.0, the
\* economies-of-scale bonuses of a large, high-volume company
C25_Witness ==
    /\ Projected
    /\ automation_levels = [labor |-> LevelScale, quality |-> LevelScale,
                            inventory |-> LevelScale, service |-> LevelScale]
    /\ baseline.employee_count > 200
    /\ baseline.production_volume > 1000000
    /\ TotalAnnualSavings > 0
    /\ total_optimized_costs > 0

----------------------------------------------------------------------------
(* adjust_enhanced_simulation *)

\* str(n) of an int n >= 0
RECURSIVE str(_)
str(n) == IF n < 10 THEN <<Digits[n + 1]>> ELSE str(n \div 10) \o <<Digits[(n % 10) + 1]>>

\* the company_data that adjust_enhanced_simulation rebuilds from baseline_data
company_data_from(baseline_data) ==
    [financial_data |->
         [revenue |-> baseline_data.revenue, cogs |-> baseline_data.cogs,
          labor_costs |-> baseline_data.labor_costs,
          overhead_costs |-> baseline_data.overhead_costs],
     company_profile |->
         [production_volume |->
              PyStr(str(baseline_data.production_volume) \o
                    <<" ", "u", "n", "i", "t", "s", "/", "y", "e", "a", "r">>),
          employee_count |-> PyStr(str(baseline_data.employee_count)),
          automation_level |-> PyStr(<<"S", "o", "m", "e", " ", "a", "u", "t", "o", "m", "a", "t", "e", "d", " ", "t", "o", "o", "l", "s">>)]]

\* the adjustments explored: the four sliders at 0, 50 and 100
Adjustments == {UniformLevels(level) : level \in Levels}

\* adjust_enhanced_simulation for the simulation stored by the creation: the
\* baseline is rebuilt from baseline_data and the calculators are run again
AdjustEnhancedSimulation ==
    /\ pc = "baseline"
    /\ \E levels \in Adjustments :
          LET enhanced_baseline ==
                  create_enhanced_baseline(company_data_from(baseline), PyNone).baseline
          IN  adjusted' = [called |-> TRUE,
                           automation_levels |-> levels,
                           baseline |-> enhanced_baseline,
                           opts |-> calculate_optimizations(enhanced_baseline, levels)]
    /\ UNCHANGED <<simVars, engine, creation, calls, questVars>>
    /\ UNCHANGED <<limitVars, legacy, submits>>

NextAdjust == CreateEnhancedBaseline \/ AdjustEnhancedSimulation

SpecAdjust == Init /\ [][NextAdjust]_vars

\* C26: the baseline rebuilt by adjust_enhanced_simulation has the stored
\* production_volume and employee_count, and adjusting with the automation
\* levels of the creation reproduces the creation's optimisation results
C26_AdjustRoundTrip ==
    adjusted.called =>
        /\ adjusted.baseline.production_volume = baseline.production_volume
        /\ adjusted.baseline.employee_count = baseline.employee_count
        /\ adjusted.opts = calculate_optimizations(baseline, adjusted.automation_levels)

----------------------------------------------------------------------------
(* Employee-count options *)

\* the employee-count options with their stated ranges: EMPLOYEES of
\* QuestionnaireFlow, q3 of the assessment questionnaire, COMPANY_SCHEMA and
\* the default of create_enhanced_simulation; open marks "N+" and "Over N"
EmployeeCountOptions ==
    { [text |-> <<"1", "-", "1", "0", " ", "e", "m", "p", "l", "o", "y", "e", "e", "s">>, low |-> 1, high |-> 10, open |-> FALSE],
      [text |-> <<"1", "1", "-", "5", "0", " ", "e", "m", "p", "l", "o", "y", "e", "e", "s">>, low |-> 11, high |-> 50, open |-> FALSE],
      [text |-> <<"5", "1", "-", "2", "0", "0", " ", "e", "m", "p", "l", "o", "y", "e", "e", "s">>, low |-> 51, high |-> 200, open |-> FALSE],
      [text |-> <<"2", "0", "0", "+", " ", "e", "m", "p", "l", "o", "y", "e", "e", "s">>, low |-> 200, high |-> 0, open |-> TRUE],
      [text |-> <<"1", "1", "-", "2", "5", " ", "e", "m", "p", "l", "o", "y", "e", "e", "s">>, low |-> 11, high |-> 25, open |-> FALSE],
      [text |-> <<"2", "6", "-", "5", "0", " ", "e", "m", "p", "l", "o", "y", "e", "e", "s">>, low |-> 26, high |-> 50, open |-> FALSE],
      [text |-> <<"5", "1", "-", "1", "0", "0", " ", "e", "m", "p", "l", "o", "y", "e", "e", "s">>, low |-> 51, high |-> 100, open |-> FALSE],
      [text |-> <<"1", "0", "1", "-", "2", "5", "0", " ", "e", "m", "p", "l", "o", "y", "e", "e", "s">>, low |-> 101, high |-> 250, open |-> FALSE],
      [text |-> <<"2", "5", "1", "-", "5", "0", "0", " ", "e", "m", "p", "l", "o", "y", "e", "e", "s">>, low |-> 251, high |-> 500, open |-> FALSE],
      [text |-> <<"O", "v", "e", "r", " ", "5", "0", "0", " ", "e", "m", "p", "l", "o", "y", "e", "e", "s">>, low |-> 500, high |-> 0, open |-> TRUE],
      [text |-> <<"1", "-", "1", "0">>, low |-> 1, high |-> 10, open |-> FALSE],
      [text |-> <<"1", "1", "-", "2", "5">>, low |-> 11, high |-> 25, open |-> FALSE],
      [text |-> <<"2", "6", "-", "5", "0">>, low |-> 26, high |-> 50, open |-> FALSE],
      [text |-> <<"5", "1", "-", "1", "0", "0">>, low |-> 51, high |-> 100, open |-> FALSE],
      [text |-> <<"1", "0", "1", "-", "2", "0", "0">>, low |-> 101, high |-> 200, open |-> FALSE],
      [text |-> <<"2", "0", "1", "-", "5", "0", "0">>, low |-> 201, high |-> 500, open |-> FALSE],
      [text |-> <<"5", "0", "0", "+">>, low |-> 500, high |-> 0, open |-> TRUE],
      [text |-> <<"5", "1", "-", "2", "0", "0">>, low |-> 51, high |-> 200, open |-> FALSE] }

InStatedRange(n, option) == n >= option.low /\ (option.open \/ n <= option.high)

\* the option that create_enhanced_baseline parsed on the company_profile path
ParsedOption ==
    {option \in EmployeeCountOptions :
        /\ Created
        /\ ~creation.raised
        /\ ~Truthy(creation.questionnaire_analysis)
        /\ Get(creation.company_data.company_profile, "employee_count", Missing) = PyStr(option.text)}

\* C27: for every employee-count option, _parse_employee_count returns a
\* value inside the option's stated range or the default 25
C27_EmployeeOptionInRange ==
    \A option \in ParsedOption :
        \/ InStatedRange(baseline.employee_count, option)
        \/ baseline.employee_count = 25

----------------------------------------------------------------------------
(* The legacy simulation route *)

MaxScenarioMonths == 6      \* months of calculate_monthly_savings examined

Options(question_id) ==
    {question_flow[question_id].options[i] : i \in 1..Len(question_flow[question_id].options)}

\* the rows a questionnaire session holds for the questions the route reads
RowsOf(product_type, volume_question) ==
    { <<[question_id |-> "START", answer |-> product_type],
        [question_id |-> volume_question, answer |-> v],
        [question_id |-> "EMPLOYEES", answer |-> e],
        [question_id |-> "AUTOMATION_CURRENT", answer |-> a]>> :
        v \in Options(volume_question),
        e \in Options("EMPLOYEES"),
        a \in Options("AUTOMATION_CURRENT") }

\* Metal Parts respondents answer VOLUME, the others GENERAL_1; a session
\* that was only started has no rows
StoredResponses ==
    {<< >>} \cup RowsOf(<<"M", "e", "t", "a", "l", " ", "P", "a", "r", "t", "s">>, "VOLUME") \cup RowsOf(<<"O", "t", "h", "e", "r">>, "GENERAL_1")

\* the requests explored: one naming a session, one naming none
SimulationRequests ==
    {[with_session |-> TRUE, rows |-> rows] : rows \in StoredResponses}
    \cup {[with_session |-> FALSE, rows |-> << >>]}

\* the recommendation lists the AI service returns: one recommendation
Recommendations ==
    { <<[title |-> category, category |-> category, implementation_effort |-> effort]>> :
        category \in {<<"a", "u", "t", "o", "m", "a", "t", "i", "o", "n">>, <<"p", "r", "o", "c", "e", "s", "s">>, <<"q", "u", "a", "l", "i", "t", "y">>, <<"i", "n", "v", "e", "n", "t", "o", "r", "y">>},
        effort \in {<<"l", "o", "w">>, <<"m", "e", "d", "i", "u", "m">>, <<"h", "i", "g", "h">>} }

\* create_simulation up to create_baseline: the profile comes from the
\* session's rows, or is the default profile when no session is named
CreateLegacyBaseline ==
    /\ legacy.pc = "start"
    /\ \E f \in FinancialData, request \in SimulationRequests :
          LET company_profile ==
                  IF request.with_session
                  THEN profile_from_responses(request.rows, [industry |-> PyStr(<<"M", "a", "n", "u", "f", "a", "c", "t", "u", "r", "i", "n", "g">>)])
                  ELSE default_company_profile
              company_data ==
                  [financial_data |->
                       [revenue |-> Money(f[1]), cogs |-> Money(f[2]),
                        labor_costs |-> Money(f[3]), overhead_costs |-> Money(f[4])],
                   company_profile |-> company_profile]
          IN  legacy' = [legacy EXCEPT !.pc = "baseline",
                                       !.with_session = request.with_session,
                                       !.company_profile = company_profile,
                                       !.baseline = create_baseline(company_data)]
    /\ UNCHANGED <<simVars, engine, creation, calls, questVars>>
    /\ UNCHANGED <<limitVars, adjusted, submits>>

\* create_simulation: apply_optimizations on the recommendations
ApplyOptimizations ==
    /\ legacy.pc = "baseline"
    /\ \E recommendations \in Recommendations :
          legacy' = [legacy EXCEPT !.pc = "optimized",
                                   !.scenarios = apply_optimizations(legacy.baseline, recommendations)]
    /\ UNCHANGED <<simVars, engine, creation, calls, questVars>>
    /\ UNCHANGED <<limitVars, adjusted, submits>>

NextLegacy == CreateLegacyBaseline \/ ApplyOptimizations

SpecLegacy == Init /\ [][NextLegacy]_vars

\* the stored answer to GENERAL_1 or VOLUME reached create_baseline
VolumeAnswered ==
    /\ legacy.pc # "start"
    /\ legacy.with_session
    /\ "production_volume" \in DOMAIN legacy.company_profile

\* C28: every production-volume option of GENERAL_1 and VOLUME is recognised
\* by SimulationEngine._parse_production_volume: the baseline built from the
\* stored answer has the option's own annual volume, not the 500,000 default
C28_VolumeOptionRecognised ==
    VolumeAnswered => legacy.baseline.production_volume # 500000

\* the category a recommendation targets
TargetOf(recommendation) ==
    IF Contains(<<"q", "u", "a", "l", "i", "t", "y">>, Lower(recommendation.category)) THEN "quality"
    ELSE IF Contains(<<"i", "n", "v", "e", "n", "t", "o", "r", "y">>, Lower(recommendation.category)) THEN "inventory"
    ELSE "labor"

\* C29: a scenario built from a single recommendation yields zero savings in
\* the categories the recommendation does not target, in every month
C29_NoSavingsOutsideTarget ==
    \A i \in 1..Len(legacy.scenarios) : \A month \in 1..MaxScenarioMonths :
        LET scenario == legacy.scenarios[i]
            target == TargetOf(scenario.applied_recommendations[1])
            savings == calculate_monthly_savings(scenario, month)
        IN  /\ target # "labor" => savings.labor_savings = 0
            /\ target # "quality" => savings.quality_savings = 0
            /\ target # "inventory" => savings.inventory_savings = 0

----------------------------------------------------------------------------
(* Concurrent submit_answer requests *)

MaxStored == 5      \* response rows after which no further request is followed

\* submit_answer up to the validation, in thread t: the request body is
\* checked, the session row is read and the answer validated against the
\* current_question read; a rejected request is answered at once
ReadSession(t, request) ==
    /\ submits[t].pc = "idle"
    /\ Len(responses) < MaxStored
    /\ LET code == submit_answer_code(request)
       IN  IF code = 200
           THEN /\ submits' = [submits EXCEPT ![t] =
                                   [pc |-> "validated", request |-> request,
                                    current_question_id |-> session.current_question]]
                /\ UNCHANGED reply
           ELSE /\ reply' = [route |-> "submit_answer", code |-> code, request |-> request]
                /\ UNCHANGED submits
    /\ UNCHANGED <<simVars, engine, creation, calls, session, responses, analysis, now>>
    /\ UNCHANGED <<limitVars, adjusted, legacy>>

\* the rest of submit_answer in thread t: the response row is added, the
\* session row updated from the question read earlier, and both committed
CommitAnswer(t) ==
    LET request == submits[t].request
        current_question_id == submits[t].current_question_id
    IN  /\ submits[t].pc = "validated"
        /\ responses' = Append(responses, [question_id |-> current_question_id,
                                           answer |-> request.chars])
        /\ IF is_complete(current_question_id, request)
           THEN /\ session' = [session EXCEPT !.status = "completed",
                                              !.completed_at = now]
                /\ analysis' \in BOOLEAN
           ELSE /\ session' = [session EXCEPT !.current_question =
                                   get_next_question_id(current_question_id, request)]
                /\ analysis' = analysis
        /\ reply' = [route |-> "submit_answer", code |-> 200, request |-> request]
        /\ submits' = [submits EXCEPT ![t] = NoSubmit]
        /\ UNCHANGED <<simVars, engine, creation, calls, now>>
        /\ UNCHANGED <<limitVars, adjusted, legacy>>

NextConcurrentSubmit ==
    \/ StartQuestionnaire
    \/ \E t \in Threads : \E request \in Requests(session.current_question) :
          ReadSession(t, request)
    \/ \E t \in Threads : CommitAnswer(t)

SpecConcurrentSubmit == Init /\ [][NextConcurrentSubmit]_vars

\* C30: under concurrent submit_answer requests a visit to a question stores
\* at most one response and advances current_question at most once: a
\* request is accepted only while the session is still in progress at the
\* question the request read, so two requests that read the same
\* current_question are never both accepted
C30_OneAcceptedAnswerPerVisit ==
    [][\A t \in Threads :
          CommitAnswer(t) =>
              /\ session.status = "in_progress"
              /\ session.current_question = submits[t].current_question_id
              /\ \A i \in 1..Len(responses) :
                    responses[i].question_id # submits[t].current_question_id]_vars

====
